---- MODULE Spec2Model ----
\* Model of the ICFP expression evaluator of xyz600/icfpc-2024:
\* core/src/parser/tokenizer.rs (lexer), core/src/parser/icfpstring.rs (codec)
\* and core/src/parser/ast.rs (arena, parser, alpha conversion, reducer).
\*
\* Representation.  A character is its code point.  A token and an arena node
\* are records of one fixed shape, so that any two of them can be compared:
\*   k   the variant name, as in TokenType / NodeType
\*   op  the UnaryOpecode / BinaryOpecode name ("" when the variant has none)
\*   a, b, c   child handles (arena indices, 0-based as in the source; 0 when unused)
\*   v   the integer payload: the Integer value, the variable identifier, or
\*       1/0 for Boolean(true)/Boolean(false)
\*   s   the ICFPString payload: the sequence of alphabet indices
\* Node.node_id always equals the node's index in node_buffer (get_node_id is
\* called exactly once per push), so it is represented by the index.
EXTENDS Integers, Sequences, FiniteSets, TLC

\* ------------------------------------------------------------------ bounds
\* longest enumerated input, in lexemes (the listed programs are longer)
MaxLexemes == 3
\* longest enumerated body of an integer literal, in base-94 digits
MaxDigits == 2
\* largest integer of the enumerated range given to from_i64
MaxInt == 200
\* longest enumerated wire string given to from_str
MaxWire == 3
\* longest chain of ICFPString calls
MaxCalls == 4
\* largest absolute value of an enumerated operand of an integer primitive
MaxOperand == 7

\* ------------------------------------------------------- program constants
IterCap == 200
FirstVarId == 128
START_CH == 33
CharMapLen == 94

\* --------------------------------------------------------------- ICFPString
\* a variant of from_str whose range check is `index <= 0`
RECURSIVE from_strMut(_)
from_strMut(input) ==
  IF input = <<>> THEN [err |-> "none", s |-> <<>>]
  ELSE LET ch == Head(input)
           index == ch - START_CH
       IN IF index <= 0 \/ index >= CharMapLen
          THEN [err |-> "InvalidCharacter", s |-> <<>>]
          ELSE LET rest == from_strMut(Tail(input))
               IN IF rest.err # "none" THEN rest
                  ELSE [err |-> "none", s |-> <<index>> \o rest.s]

\* ICFPString::from_str: wire characters to alphabet indices
RECURSIVE from_str(_)
from_str(input) ==
  IF input = <<>> THEN [err |-> "none", s |-> <<>>]
  ELSE LET ch == Head(input)
           index == ch - START_CH
       IN IF index < 0 \/ index >= CharMapLen
          THEN [err |-> "InvalidCharacter", s |-> <<>>]
          ELSE LET rest == from_str(Tail(input))
               IN IF rest.err # "none" THEN rest
                  ELSE [err |-> "none", s |-> <<index>> \o rest.s]

\* An i64 is held as its 64-bit pattern: four 16-bit limbs, least significant
\* first.
Limb == 2^16

Zero64 == <<0, 0, 0, 0>>

\* x * m + a on the 64-bit pattern: the low 64 bits and what is carried out
MulAdd64d(p1, p2, p3, p4) ==
  [limbs |-> <<p1 % Limb, p2 % Limb, p3 % Limb, p4 % Limb>>, carry |-> p4 \div Limb]

MulAdd64c(x, m, p1, p2, p3) == MulAdd64d(p1, p2, p3, x[4] * m + p3 \div Limb)

MulAdd64b(x, m, p1, p2) == MulAdd64c(x, m, p1, p2, x[3] * m + p2 \div Limb)

MulAdd64a(x, m, p1) == MulAdd64b(x, m, p1, x[2] * m + p1 \div Limb)

MulAdd64(x, m, a) == MulAdd64a(x, m, x[1] * m + a)

\* the integer a 64-bit pattern stands for in two's complement
Int64(x) ==
  IF x[4] < Limb \div 2
  THEN x[1] + Limb * (x[2] + Limb * (x[3] + Limb * x[4]))
  ELSE 0 - 1 - ((Limb - 1 - x[1]) + Limb * ((Limb - 1 - x[2])
                 + Limb * ((Limb - 1 - x[3]) + Limb * (Limb - 1 - x[4]))))

\* `ret = ret * 94 + *index as i64`: acc.ovf records that the exact result of
\* this or of an earlier step is above i64::MAX (an arithmetic overflow: a
\* panic in a build with overflow checks, a wrapped value without them)
to_i64_step(acc, r) ==
  [limbs |-> r.limbs, ovf |-> acc.ovf \/ r.carry > 0 \/ r.limbs[4] >= Limb \div 2]

RECURSIVE to_i64_loop(_,_)
to_i64_loop(s, acc) ==
  IF s = <<>> THEN acc
  ELSE to_i64_loop(Tail(s), to_i64_step(acc, MulAdd64(acc.limbs, CharMapLen, Head(s))))

\* ICFPString::to_i64: base-94 digits, most significant first; the value is
\* the one the wrapping arithmetic gives
to_i64(s) == Int64(to_i64_loop(s, [limbs |-> Zero64, ovf |-> FALSE]).limbs)

\* ICFPString::to_i64 overflows on s
to_i64_overflows(s) == to_i64_loop(s, [limbs |-> Zero64, ovf |-> FALSE]).ovf

\* a variant of from_i64 that leaves out `s.reverse()`: least significant
\* digit first
RECURSIVE from_i64Mut(_)
from_i64Mut(input) ==
  IF input > 0 THEN <<input % CharMapLen>> \o from_i64Mut(input \div CharMapLen)
  ELSE <<>>

\* ICFPString::from_i64: the loop runs while input > 0
RECURSIVE from_i64(_)
from_i64(input) ==
  IF input > 0 THEN Append(from_i64(input \div CharMapLen), input % CharMapLen)
  ELSE <<>>

\* what to_i64 returns on s in a build with (checks) or without overflow
\* checks: the value, or a panic when it overflows and the build checks
to_i64_build(s, checks) ==
  IF checks /\ to_i64_overflows(s) THEN [err |-> "Panic", v |-> 0]
  ELSE [err |-> "none", v |-> to_i64(s)]

\* what to_i64 can return on s over the two builds
to_i64_outcomes(s) == {to_i64_build(s, checks) : checks \in BOOLEAN}

\* std::char::from_u32 is Some: a Unicode scalar value
IsChar(u) == u < 55296 \/ (u > 57343 /\ u <= 1114111)

\* ICFPString::to_string: alphabet indices to wire characters
RECURSIVE to_string(_)
to_string(s) ==
  IF s = <<>> THEN [err |-> "none", chars |-> <<>>]
  ELSE LET new_index == Head(s) + START_CH
       IN IF ~IsChar(new_index)
          THEN [err |-> "InvalidCharacter", chars |-> <<>>]
          ELSE LET rest == to_string(Tail(s))
               IN IF rest.err # "none" THEN rest
                  ELSE [err |-> "none", chars |-> <<new_index>> \o rest.chars]

\* CHAR_MAP (and ARRAY, its characters): the alphabet, as code points
CHAR_MAP ==
  <<97, 98, 99, 100, 101, 102, 103, 104, 105, 106, 107, 108, 109, 110, 111, 112,
    113, 114, 115, 116, 117, 118, 119, 120, 121, 122, 65, 66, 67, 68, 69, 70, 71,
    72, 73, 74, 75, 76, 77, 78, 79, 80, 81, 82, 83, 84, 85, 86, 87, 88, 89, 90,
    48, 49, 50, 51, 52, 53, 54, 55, 56, 57, 33, 34, 35, 36, 37, 38, 39, 40, 41,
    42, 43, 44, 45, 46, 47, 58, 59, 60, 61, 62, 63, 64, 91, 92, 93, 94, 95, 96,
    124, 126, 32, 10>>

\* ICFPString::iter: the alphabet characters of s (ARRAY is indexed from 0)
iter_chars(s) == [i \in 1..Len(s) |-> CHAR_MAP[s[i] + 1]]

concat(s1, s2) == s1 \o s2

take(s, n) == SubSeq(s, 1, IF n < Len(s) THEN n ELSE Len(s))

drop(s, n) == SubSeq(s, (IF n < Len(s) THEN n ELSE Len(s)) + 1, Len(s))

\* ---------------------------------------------------------------- tokenizer
Tok(k, op, v, s) == [k |-> k, op |-> op, v |-> v, s |-> s]

UnaryOpOf(ch) ==
  CASE ch = 45 -> "Negate"
    [] ch = 33 -> "Not"
    [] ch = 35 -> "StrToInt"
    [] ch = 36 -> "IntToStr"
    [] OTHER -> ""

\* a variant of BinaryOpOf that gives `<` and `>` each other's opcode
BinaryOpOfMut(ch) ==
  CASE ch = 43 -> "Add"
    [] ch = 45 -> "Sub"
    [] ch = 42 -> "Mul"
    [] ch = 47 -> "Div"
    [] ch = 37 -> "Modulo"
    [] ch = 60 -> "IntegerSmaller"
    [] ch = 62 -> "IntegerLarger"
    [] ch = 61 -> "Equal"
    [] ch = 124 -> "Or"
    [] ch = 38 -> "And"
    [] ch = 46 -> "StrConcat"
    [] ch = 84 -> "TakeStr"
    [] ch = 68 -> "DropStr"
    [] ch = 36 -> "Apply"
    [] OTHER -> ""

BinaryOpOf(ch) ==
  CASE ch = 43 -> "Add"
    [] ch = 45 -> "Sub"
    [] ch = 42 -> "Mul"
    [] ch = 47 -> "Div"
    [] ch = 37 -> "Modulo"
    [] ch = 60 -> "IntegerLarger"
    [] ch = 62 -> "IntegerSmaller"
    [] ch = 61 -> "Equal"
    [] ch = 124 -> "Or"
    [] ch = 38 -> "And"
    [] ch = 46 -> "StrConcat"
    [] ch = 84 -> "TakeStr"
    [] ch = 68 -> "DropStr"
    [] ch = 36 -> "Apply"
    [] OTHER -> ""

NoTok == Tok("", "", 0, <<>>)

\* what one iteration of the loop of tokenize yields: an error or a token; ovf
\* when to_i64 overflowed on the way
Lexed(err, tok, ovf) == [err |-> err, tok |-> tok, ovf |-> ovf]

\* `ICFPString::from_str(chars[1..])?` followed by to_i64, for I, L and v
NumberTok(k, body) ==
  IF body.err # "none" THEN Lexed(body.err, NoTok, FALSE)
  ELSE Lexed("none", Tok(k, "", to_i64(body.s), <<>>), to_i64_overflows(body.s))

\* one iteration of the loop of tokenize: the token of one lexeme.
\* chars[1] on a one-character lexeme is an out-of-bounds index (a panic).
TokenOf(chars) ==
  LET c0 == chars[1]
      body == from_str(Tail(chars))
  IN CASE c0 = 84 -> Lexed("none", Tok("Boolean", "", 1, <<>>), FALSE)
       [] c0 = 70 -> Lexed("none", Tok("Boolean", "", 0, <<>>), FALSE)
       [] c0 = 73 -> NumberTok("Integer", body)
       [] c0 = 83 -> IF body.err # "none" THEN Lexed(body.err, NoTok, FALSE)
                     ELSE Lexed("none", Tok("String", "", 0, body.s), FALSE)
       [] c0 = 85 -> IF Len(chars) < 2 THEN Lexed("Panic", NoTok, FALSE)
                     ELSE IF UnaryOpOf(chars[2]) = "" THEN Lexed("InvalidToken", NoTok, FALSE)
                     ELSE Lexed("none", Tok("Unary", UnaryOpOf(chars[2]), 0, <<>>), FALSE)
       [] c0 = 66 -> IF Len(chars) < 2 THEN Lexed("Panic", NoTok, FALSE)
                     ELSE IF BinaryOpOf(chars[2]) = "" THEN Lexed("InvalidToken", NoTok, FALSE)
                     ELSE Lexed("none", Tok("Binary", BinaryOpOf(chars[2]), 0, <<>>), FALSE)
       [] c0 = 63 -> Lexed("none", Tok("If", "", 0, <<>>), FALSE)
       [] c0 = 76 -> NumberTok("Lambda", body)
       [] c0 = 118 -> NumberTok("Variable", body)
       [] OTHER -> Lexed("InvalidToken", NoTok, FALSE)

IsAsciiWhitespace(ch) == ch \in {32, 9, 10, 12, 13}

\* str::split_ascii_whitespace: the maximal runs of non-whitespace characters
RECURSIVE split_ascii_whitespace(_,_)
split_ascii_whitespace(input, cur) ==
  IF input = <<>> THEN (IF cur = <<>> THEN <<>> ELSE <<cur>>)
  ELSE IF IsAsciiWhitespace(Head(input))
       THEN (IF cur = <<>> THEN <<>> ELSE <<cur>>) \o split_ascii_whitespace(Tail(input), <<>>)
       ELSE split_ascii_whitespace(Tail(input), Append(cur, Head(input)))

\* the loop of tokenize; ovf when to_i64 overflowed on a lexeme before the
\* loop ended
RECURSIVE tokenize_loop(_)
tokenize_loop(lexemes) ==
  IF lexemes = <<>> THEN [err |-> "none", toks |-> <<>>, ovf |-> FALSE]
  ELSE LET t == TokenOf(Head(lexemes))
       IN IF t.err # "none" THEN [err |-> t.err, toks |-> <<>>, ovf |-> FALSE]
          ELSE LET rest == tokenize_loop(Tail(lexemes))
               IN IF rest.err # "none" THEN [rest EXCEPT !.ovf = t.ovf \/ rest.ovf]
                  ELSE [err |-> "none", toks |-> <<t.tok>> \o rest.toks,
                        ovf |-> t.ovf \/ rest.ovf]

\* tokenize in a build without overflow checks
tokenize(input) == tokenize_loop(split_ascii_whitespace(input, <<>>))

\* tokenize in a build with (checks) or without overflow checks: an overflow
\* of to_i64 is a panic in a build with overflow checks
tokenize_build(input, checks) ==
  IF checks /\ tokenize(input).ovf THEN [err |-> "Panic", toks |-> <<>>, ovf |-> TRUE]
  ELSE tokenize(input)

\* what tokenize can do on input over the two builds
tokenize_outcomes(input) == {tokenize_build(input, checks) : checks \in BOOLEAN}

\* -------------------------------------------------------------------- arena
Nd(k, op, a, b, c, v, s) == [k |-> k, op |-> op, a |-> a, b |-> b, c |-> c, v |-> v, s |-> s]

BooleanN(v) == Nd("Boolean", "", 0, 0, 0, v, <<>>)
IntegerN(i) == Nd("Integer", "", 0, 0, 0, i, <<>>)
StringN(s) == Nd("String", "", 0, 0, 0, 0, s)
UnaryN(op, child) == Nd("Unary", op, child, 0, 0, 0, <<>>)
BinaryN(op, c1, c2) == Nd("Binary", op, c1, c2, 0, 0, <<>>)
IfN(pred, first, second) == Nd("If", "", pred, first, second, 0, <<>>)
LambdaN(var, expr) == Nd("Lambda", "", expr, 0, 0, var, <<>>)
VariableN(var) == Nd("Variable", "", 0, 0, 0, var, <<>>)
LazyN(target) == Nd("Lazy", "", target, 0, 0, 0, <<>>)

\* Index / IndexMut for NodeFactory
Node(nb, h) == nb[h + 1]
SetNode(nb, h, n) == [nb EXCEPT ![h + 1] = n]

\* NodeFactory::new
NewFactory == [nb |-> <<>>, var_id |-> FirstVarId, root_id |-> 0]

\* the *_node constructors: push one node, return its index
Push(ps, n) == [ps |-> [ps EXCEPT !.nb = Append(@, n)], id |-> Len(ps.nb)]

\* a variant of get_var_id that leaves the counter as it is
get_var_idMut(ps) == [ps |-> ps, v |-> ps.var_id]

\* NodeFactory::get_var_id
get_var_id(ps) == [ps |-> [ps EXCEPT !.var_id = @ + 1], v |-> ps.var_id]

IsLiteral(n) == n.k \in {"Boolean", "Integer", "String"}

\* ------------------------------------------------------------------- parser
\* a variant of OperandCount that reads two operands after a Lambda token
OperandCountMut(tok) ==
  CASE tok.k \in {"Boolean", "Integer", "String", "Variable"} -> 0
    [] tok.k = "Unary" -> 1
    [] tok.k \in {"Lambda", "Binary"} -> 2
    [] tok.k = "If" -> 3

\* the number of operands construct_node builds for a token before its node
OperandCount(tok) ==
  CASE tok.k \in {"Boolean", "Integer", "String", "Variable"} -> 0
    [] tok.k \in {"Unary", "Lambda"} -> 1
    [] tok.k = "Binary" -> 2
    [] tok.k = "If" -> 3

TokenNode(tok, ops) ==
  CASE tok.k = "Boolean" -> BooleanN(tok.v)
    [] tok.k = "Integer" -> IntegerN(tok.v)
    [] tok.k = "String" -> StringN(tok.s)
    [] tok.k = "Variable" -> VariableN(tok.v)
    [] tok.k = "Unary" -> UnaryN(tok.op, ops[1])
    [] tok.k = "Lambda" -> LambdaN(tok.v, ops[1])
    [] tok.k = "Binary" -> BinaryN(tok.op, ops[1], ops[2])
    [] tok.k = "If" -> IfN(ops[1], ops[2], ops[3])

\* construct_node: pop the head token, build its operands left to right, push
\* the node.  need/ops carry the operands of the token being built.
RECURSIVE construct_node(_,_)
RECURSIVE construct_operands(_,_,_,_)
construct_operands(ps, queue, need, ops) ==
  IF need = 0 THEN [err |-> "none", ps |-> ps, queue |-> queue, ops |-> ops]
  ELSE LET r == construct_node(ps, queue)
       IN IF r.err # "none" THEN [err |-> r.err, ps |-> r.ps, queue |-> r.queue, ops |-> ops]
          ELSE construct_operands(r.ps, r.queue, need - 1, Append(ops, r.id))

construct_node(ps, queue) ==
  IF queue = <<>> THEN [err |-> "CannotFindNextToken", ps |-> ps, queue |-> queue, id |-> 0]
  ELSE LET token == Head(queue)
           o == construct_operands(ps, Tail(queue), OperandCount(token), <<>>)
       IN IF o.err # "none" THEN [err |-> o.err, ps |-> o.ps, queue |-> o.queue, id |-> 0]
          ELSE LET p == Push(o.ps, TokenNode(token, o.ops))
               IN [err |-> "none", ps |-> p.ps, queue |-> o.queue, id |-> p.id]

\* --------------------------------------------------------- alpha conversion
\* replace_var_id: rename Variable(from) to Variable(to) below node_id; a
\* Lambda binding `from` stops the walk, a Lazy is followed once per target.
RECURSIVE replace_var_id(_,_,_,_,_)
replace_var_id(nb, node_id, from, to, visited) ==
  LET n == Node(nb, node_id)
  IN CASE IsLiteral(n) -> [nb |-> nb, visited |-> visited]
       [] n.k = "Unary" -> replace_var_id(nb, n.a, from, to, visited)
       [] n.k = "Binary" ->
            LET r1 == replace_var_id(nb, n.a, from, to, visited)
            IN replace_var_id(r1.nb, n.b, from, to, r1.visited)
       [] n.k = "If" ->
            LET r1 == replace_var_id(nb, n.a, from, to, visited)
                r2 == replace_var_id(r1.nb, n.b, from, to, r1.visited)
            IN replace_var_id(r2.nb, n.c, from, to, r2.visited)
       [] n.k = "Lambda" ->
            IF n.v # from THEN replace_var_id(nb, n.a, from, to, visited)
            ELSE [nb |-> nb, visited |-> visited]
       [] n.k = "Variable" ->
            IF n.v = from THEN [nb |-> SetNode(nb, node_id, VariableN(to)), visited |-> visited]
            ELSE [nb |-> nb, visited |-> visited]
       [] n.k = "Lazy" ->
            IF n.a \notin visited
            THEN replace_var_id(nb, n.a, from, to, visited \cup {n.a})
            ELSE [nb |-> nb, visited |-> visited]

\* alpha_convert: every Lambda below node_id gets a fresh identifier
RECURSIVE alpha_convert(_,_,_)
alpha_convert(ps, node_id, visited) ==
  LET n == Node(ps.nb, node_id)
  IN CASE IsLiteral(n) \/ n.k = "Variable" -> [ps |-> ps, visited |-> visited]
       [] n.k = "Unary" -> alpha_convert(ps, n.a, visited)
       [] n.k = "Binary" ->
            LET r1 == alpha_convert(ps, n.a, visited)
            IN alpha_convert(r1.ps, n.b, r1.visited)
       [] n.k = "If" ->
            LET r1 == alpha_convert(ps, n.a, visited)
                r2 == alpha_convert(r1.ps, n.b, r1.visited)
            IN alpha_convert(r2.ps, n.c, r2.visited)
       [] n.k = "Lambda" ->
            LET g == get_var_id(ps)
                r == replace_var_id(g.ps.nb, n.a, n.v, g.v, {})
                nb2 == SetNode(r.nb, node_id, LambdaN(g.v, n.a))
            IN alpha_convert([g.ps EXCEPT !.nb = nb2], n.a, visited)
       [] n.k = "Lazy" ->
            IF n.a \notin visited
            THEN alpha_convert(ps, n.a, visited \cup {n.a})
            ELSE [ps |-> ps, visited |-> visited]

\* ------------------------------------------------------------- substitution
\* substitute_inner: Variable(var_id) becomes Lazy(lazy_node_id)
RECURSIVE substitute_inner(_,_,_,_,_)
substitute_inner(nb, node_id, var_id, lazy_node_id, visited) ==
  LET nt == Node(nb, node_id)
  IN CASE IsLiteral(nt) -> [nb |-> nb, visited |-> visited]
       [] nt.k = "Unary" -> substitute_inner(nb, nt.a, var_id, lazy_node_id, visited)
       [] nt.k = "Binary" ->
            LET r1 == substitute_inner(nb, nt.a, var_id, lazy_node_id, visited)
            IN substitute_inner(r1.nb, nt.b, var_id, lazy_node_id, r1.visited)
       [] nt.k = "If" ->
            LET r1 == substitute_inner(nb, nt.a, var_id, lazy_node_id, visited)
                r2 == substitute_inner(r1.nb, nt.b, var_id, lazy_node_id, r1.visited)
            IN substitute_inner(r2.nb, nt.c, var_id, lazy_node_id, r2.visited)
       [] nt.k = "Lambda" ->
            IF var_id # nt.v THEN substitute_inner(nb, nt.a, var_id, lazy_node_id, visited)
            ELSE [nb |-> nb, visited |-> visited]
       [] nt.k = "Variable" ->
            IF var_id = nt.v
            THEN [nb |-> SetNode(nb, node_id, LazyN(lazy_node_id)), visited |-> visited]
            ELSE [nb |-> nb, visited |-> visited]
       [] nt.k = "Lazy" ->
            IF nt.a \notin visited
            THEN substitute_inner(nb, nt.a, var_id, lazy_node_id, visited \cup {nt.a})
            ELSE [nb |-> nb, visited |-> visited]

substitute(nb, root_node_id, var_id, node_id) ==
  substitute_inner(nb, root_node_id, var_id, node_id, {}).nb

\* ------------------------------------------------------------- extract_node
\* extract_node follows a chain of Lazy nodes to the first node that is not
\* Lazy and retargets every Lazy of the chain at it.  The source recursion has
\* no visited set: on a chain that returns to one of its own nodes it never
\* returns (the stack is exhausted).  `chain` holds the Lazy nodes entered so
\* far and exists only to tell that case apart: looped = TRUE stands for it.
RECURSIVE extract_chain(_,_,_)
extract_chain(nb, node_id, chain) ==
  LET n == Node(nb, node_id)
  IN IF n.k = "Lazy"
     THEN IF node_id \in chain
          THEN [nb |-> nb, inner |-> node_id, looped |-> TRUE]
          ELSE LET r == extract_chain(nb, n.a, chain \cup {node_id})
               IN IF r.looped THEN r
                  ELSE [nb |-> SetNode(r.nb, node_id, LazyN(r.inner)),
                        inner |-> r.inner, looped |-> FALSE]
     ELSE [nb |-> nb, inner |-> node_id, looped |-> FALSE]

extract_node(nb, node_id) == extract_chain(nb, node_id, {})

\* ------------------------------------------------------------ shallow_clone
\* ParserState::shallow_clone: copy the nodes below node_id, except that a
\* Lazy node is not copied (its own handle is returned).
RECURSIVE shallow_clone(_,_)

\* the arms of shallow_clone after their recursive calls: c, c1, c2, c3 are
\* the results (state and handle) of the calls made so far
CloneUnary(nt, c) == Push(c.ps, UnaryN(nt.op, c.id))

CloneBinary2(nt, c1, c2) == Push(c2.ps, BinaryN(nt.op, c1.id, c2.id))

CloneBinary(nt, c1) == CloneBinary2(nt, c1, shallow_clone(c1.ps, nt.b))

CloneIf3(nt, c1, c2, c3) == Push(c3.ps, IfN(c1.id, c2.id, c3.id))

CloneIf2(nt, c1, c2) == CloneIf3(nt, c1, c2, shallow_clone(c2.ps, nt.c))

CloneIf(nt, c1) == CloneIf2(nt, c1, shallow_clone(c1.ps, nt.b))

\* lambda_node(v, new_child), then replace_var_id(node_id, v, new_v) on the
\* original node
CloneLambda3(node_id, nt, new_v, p) ==
  [ps |-> [p.ps EXCEPT !.nb = replace_var_id(p.ps.nb, node_id, nt.v, new_v, {}).nb],
   id |-> p.id]

CloneLambda2(node_id, nt, new_v, c) ==
  CloneLambda3(node_id, nt, new_v, Push(c.ps, LambdaN(nt.v, c.id)))

CloneLambda(node_id, nt, g) ==
  CloneLambda2(node_id, nt, g.v, shallow_clone(g.ps, nt.a))

\* a variant of CloneNode that copies a Lazy node like any other node
CloneNodeMut(ps, node_id, nt) ==
  CASE IsLiteral(nt) \/ nt.k \in {"Variable", "Lazy"} -> Push(ps, nt)
    [] nt.k = "Unary" -> CloneUnary(nt, shallow_clone(ps, nt.a))
    [] nt.k = "Binary" -> CloneBinary(nt, shallow_clone(ps, nt.a))
    [] nt.k = "If" -> CloneIf(nt, shallow_clone(ps, nt.a))
    [] nt.k = "Lambda" -> CloneLambda(node_id, nt, get_var_id(ps))

CloneNode(ps, node_id, nt) ==
  CASE IsLiteral(nt) \/ nt.k = "Variable" -> Push(ps, nt)
    [] nt.k = "Unary" -> CloneUnary(nt, shallow_clone(ps, nt.a))
    [] nt.k = "Binary" -> CloneBinary(nt, shallow_clone(ps, nt.a))
    [] nt.k = "If" -> CloneIf(nt, shallow_clone(ps, nt.a))
    [] nt.k = "Lambda" -> CloneLambda(node_id, nt, get_var_id(ps))
    [] nt.k = "Lazy" -> [ps |-> ps, id |-> node_id]

shallow_clone(ps, node_id) == CloneNode(ps, node_id, Node(ps.nb, node_id))

\* --------------------------------------------------------------- primitives
NoNode == Nd("", "", 0, 0, 0, 0, <<>>)
PanicNode == Nd("Panic", "", 0, 0, 0, 0, <<>>)

Abs(i) == IF i < 0 THEN 0 - i ELSE i

\* a variant of TruncDiv that rounds the quotient toward minus infinity
TruncDivMut(i1, i2) ==
  IF (i1 < 0) = (i2 < 0) THEN Abs(i1) \div Abs(i2)
  ELSE 0 - ((Abs(i1) + Abs(i2) - 1) \div Abs(i2))

\* BigInt `/` and `%`: the quotient is truncated toward zero
TruncDiv(i1, i2) ==
  IF (i1 < 0) = (i2 < 0) THEN Abs(i1) \div Abs(i2) ELSE 0 - (Abs(i1) \div Abs(i2))

TruncRem(i1, i2) == i1 - i2 * TruncDiv(i1, i2)

BoolV(b) == IF b THEN 1 ELSE 0

\* the match on (opcode, child_type) of the Unary case: the literal that
\* replaces the node, or NoNode when no arm fires
UnaryResult(opcode, child_type) ==
  CASE opcode = "Negate" /\ child_type.k = "Integer" -> IntegerN(0 - child_type.v)
    [] opcode = "Not" /\ child_type.k = "Boolean" -> BooleanN(1 - child_type.v)
    [] opcode = "StrToInt" /\ child_type.k = "String" -> IntegerN(to_i64(child_type.s))
    [] opcode = "IntToStr" /\ child_type.k = "Integer" -> StringN(from_i64(child_type.v))
    [] OTHER -> NoNode

\* the arms of BinaryOpecode::Mul, in source order
MulResult(t1, t2) ==
  IF t1.k = "Integer" /\ t2.k = "Integer" THEN IntegerN(t1.v * t2.v)
  ELSE IF t1.k = "Integer" THEN (IF t1.v = 0 THEN IntegerN(0) ELSE NoNode)
  ELSE IF t2.k = "Integer" THEN (IF t2.v = 0 THEN IntegerN(0) ELSE NoNode)
  ELSE NoNode

\* the match on (opcode, child_type1, child_type2) of the Binary case for the
\* operators other than Apply; PanicNode when the arm panics (division by
\* zero, try_into().unwrap() of a negative count)
BinaryResult(opcode, t1, t2) ==
  LET ints == t1.k = "Integer" /\ t2.k = "Integer"
      bools == t1.k = "Boolean" /\ t2.k = "Boolean"
      strs == t1.k = "String" /\ t2.k = "String"
  IN CASE opcode = "Add" /\ ints -> IntegerN(t1.v + t2.v)
       [] opcode = "Sub" /\ ints -> IntegerN(t1.v - t2.v)
       [] opcode = "Mul" -> MulResult(t1, t2)
       [] opcode = "Div" /\ ints ->
            IF t2.v = 0 THEN PanicNode ELSE IntegerN(TruncDiv(t1.v, t2.v))
       [] opcode = "Modulo" /\ ints ->
            IF t2.v = 0 THEN PanicNode ELSE IntegerN(TruncRem(t1.v, t2.v))
       [] opcode = "IntegerLarger" /\ ints -> BooleanN(BoolV(t1.v < t2.v))
       [] opcode = "IntegerSmaller" /\ ints -> BooleanN(BoolV(t1.v > t2.v))
       [] opcode = "Equal" /\ ints -> BooleanN(BoolV(t1.v = t2.v))
       [] opcode = "Equal" /\ strs -> BooleanN(BoolV(t1.s = t2.s))
       [] opcode = "Equal" /\ bools -> BooleanN(BoolV(t1.v = t2.v))
       [] opcode = "Or" /\ bools -> BooleanN(BoolV(t1.v = 1 \/ t2.v = 1))
       [] opcode = "And" /\ bools -> BooleanN(BoolV(t1.v = 1 /\ t2.v = 1))
       [] opcode = "StrConcat" /\ strs -> StringN(concat(t1.s, t2.s))
       [] opcode = "TakeStr" /\ t1.k = "Integer" /\ t2.k = "String" ->
            IF t1.v < 0 THEN PanicNode ELSE StringN(take(t2.s, t1.v))
       [] opcode = "DropStr" /\ t1.k = "Integer" /\ t2.k = "String" ->
            IF t1.v < 0 THEN PanicNode ELSE StringN(drop(t2.s, t1.v))
       [] OTHER -> NoNode

\* ------------------------------------------------------------ evaluate_once
\* The state of one pass:
\*   ps       the ParserState
\*   updated  the flag *updated
\*   visited  eval_node_visited
\*   fault    "none", or how the pass aborts: "StackOverflow" (extract_node
\*            on a Lazy chain that loops) or "Panic"
\*   rw       the rewrites of evaluate_once made so far in this pass: the node,
\*            its content before, the rule, the resolved operand handles
\*            (f, x: function and argument of a beta step; x: the selected
\*            branch of an If) and, for an If, whether the selected branch
\*            was referenced through a Lazy node
\*   clone    the call of shallow_clone a beta step of this pass made: the
\*            handle it was given (root), the arena before the call (pre) and
\*            its length (base), the handle returned (id) and the arena after
\*            the call (post)
NoClone == [root |-> 0, base |-> 0, pre |-> <<>>, id |-> 0, post |-> <<>>]

PassState(ps) ==
  [ps |-> ps, updated |-> FALSE, visited |-> {}, fault |-> "none", rw |-> <<>>,
   clone |-> NoClone]

Rewrite(st, node_id, new, how, f, x, lazy) ==
  [st EXCEPT !.ps.nb = SetNode(@, node_id, new),
             !.updated = TRUE,
             !.rw = Append(@, [node |-> node_id, pre |-> Node(st.ps.nb, node_id),
                               how |-> how, f |-> f, x |-> x, lazy |-> lazy])]

WithNb(st, nb) == [st EXCEPT !.ps.nb = nb]

Overflow(st) == [st EXCEPT !.fault = "StackOverflow"]

\* the beta step of BinaryOpecode::Apply on a Lambda(var_id, child1_inner):
\* shallow_clone (cl), get_var_id (g), replace_var_id on the clone, substitute
\* (nb2), and the Apply node takes the content of the clone's root
ApplyLambda3(st, node_id, child1, child2, g, cl, nb2) ==
  Rewrite([st EXCEPT !.ps = [g.ps EXCEPT !.nb = nb2],
                     !.clone = [@ EXCEPT !.base = Len(st.ps.nb), !.pre = st.ps.nb,
                                         !.id = cl.id, !.post = cl.ps.nb]],
          node_id, Node(nb2, cl.id), "apply", child1, child2, FALSE)

ApplyLambda2(st, node_id, var_id, child1, child2, cl, g) ==
  ApplyLambda3(st, node_id, child1, child2, g, cl,
               substitute(replace_var_id(g.ps.nb, cl.id, var_id, g.v, {}).nb,
                          cl.id, g.v, child2))

ApplyLambda1(st, node_id, var_id, child1, child2, cl) ==
  ApplyLambda2(st, node_id, var_id, child1, child2, cl, get_var_id(cl.ps))

ApplyLambda(st, node_id, var_id, child1_inner, child1, child2) ==
  ApplyLambda1([st EXCEPT !.clone.root = child1_inner], node_id, var_id, child1, child2,
               shallow_clone(st.ps, child1_inner))

RECURSIVE evaluate_once(_,_)

\* `if !*updated { evaluate_once(child1); if !*updated { evaluate_once(child2) } }`
\* a variant of EvalSecond that does not test *updated
EvalSecondMut(s1, child2) == evaluate_once(s1, child2)

EvalSecond(s1, child2) == IF ~s1.updated THEN evaluate_once(s1, child2) ELSE s1

EvalOperands(s1, child1, child2) ==
  IF ~s1.updated THEN EvalSecond(evaluate_once(s1, child1), child2) ELSE s1

\* the Unary case: e is the result of extract_node on the operand, res the
\* result of the match on (opcode, child_type)
EvalUnary3(s1, node_id, child_id, res) ==
  IF res # NoNode THEN Rewrite(s1, node_id, res, "unary", child_id, child_id, FALSE)
  ELSE IF ~s1.updated THEN evaluate_once(s1, child_id)
  ELSE s1

EvalUnary2(st, node_id, n, e) ==
  IF e.looped THEN Overflow(st)
  ELSE EvalUnary3(WithNb(st, e.nb), node_id, e.inner, UnaryResult(n.op, Node(e.nb, e.inner)))

EvalUnary(st, node_id, n) == EvalUnary2(st, node_id, n, extract_node(st.ps.nb, n.a))

\* the Binary case: e1, e2 are the results of extract_node on the operands,
\* res the result of the match for the operators other than Apply
EvalBinary4(s1, node_id, n, child1, child2, child_type1, res) ==
  IF n.op = "Apply"
  THEN IF child_type1.k = "Lambda"
       THEN ApplyLambda(s1, node_id, child_type1.v, child_type1.a, child1, child2)
       ELSE EvalOperands(s1, child1, child2)
  ELSE IF res = PanicNode THEN [s1 EXCEPT !.fault = "Panic"]
  ELSE IF res # NoNode THEN Rewrite(s1, node_id, res, "binary", child1, child2, FALSE)
  ELSE EvalOperands(s1, child1, child2)

EvalBinary3(st, node_id, n, e1, e2) ==
  IF e1.looped THEN Overflow(st)
  ELSE IF e2.looped THEN Overflow(st)
  ELSE EvalBinary4(WithNb(st, e2.nb), node_id, n, e1.inner, e2.inner,
                   Node(e1.nb, e1.inner),
                   BinaryResult(n.op, Node(e1.nb, e1.inner), Node(e2.nb, e2.inner)))

EvalBinary2(st, node_id, n, e1) ==
  EvalBinary3(st, node_id, n, e1, extract_node(e1.nb, n.b))

EvalBinary(st, node_id, n) == EvalBinary2(st, node_id, n, extract_node(st.ps.nb, n.a))

\* the If case: e1, e2, e3 are the results of extract_node on the predicate
\* and the two branches
EvalBranches(s1, first, second) ==
  IF ~s1.updated THEN EvalSecond(evaluate_once(s1, first), second) ELSE s1

\* a variant of EvalIf5 that reduces the branches before the predicate
EvalIf5Mut(st, s1, node_id, n, pred, first, second, p) ==
  IF p.k = "Boolean"
  THEN IF p.v = 1
       THEN Rewrite(s1, node_id, Node(s1.ps.nb, first), "if", pred, first,
                    Node(st.ps.nb, n.b).k = "Lazy")
       ELSE Rewrite(s1, node_id, Node(s1.ps.nb, second), "if", pred, second,
                    Node(st.ps.nb, n.c).k = "Lazy")
  ELSE IF ~s1.updated THEN EvalBranches(evaluate_once(s1, first), second, pred)
  ELSE s1

EvalIf5(st, s1, node_id, n, pred, first, second, p) ==
  IF p.k = "Boolean"
  THEN IF p.v = 1
       THEN Rewrite(s1, node_id, Node(s1.ps.nb, first), "if", pred, first,
                    Node(st.ps.nb, n.b).k = "Lazy")
       ELSE Rewrite(s1, node_id, Node(s1.ps.nb, second), "if", pred, second,
                    Node(st.ps.nb, n.c).k = "Lazy")
  ELSE IF ~s1.updated THEN EvalBranches(evaluate_once(s1, pred), first, second)
  ELSE s1

EvalIf4(st, node_id, n, e1, e2, e3) ==
  IF e1.looped THEN Overflow(st)
  ELSE IF e2.looped THEN Overflow(st)
  ELSE IF e3.looped THEN Overflow(st)
  ELSE EvalIf5(st, WithNb(st, e3.nb), node_id, n, e1.inner, e2.inner, e3.inner,
               Node(e3.nb, e1.inner))

EvalIf3(st, node_id, n, e1, e2) == EvalIf4(st, node_id, n, e1, e2, extract_node(e2.nb, n.c))

EvalIf2(st, node_id, n, e1) == EvalIf3(st, node_id, n, e1, extract_node(e1.nb, n.b))

EvalIf(st, node_id, n) == EvalIf2(st, node_id, n, extract_node(st.ps.nb, n.a))

\* the Lambda case
EvalLambda2(st, e) ==
  IF e.looped THEN Overflow(st)
  ELSE IF ~st.updated THEN evaluate_once(WithNb(st, e.nb), e.inner)
  ELSE WithNb(st, e.nb)

EvalLambda(st, node_id, n) == EvalLambda2(st, extract_node(st.ps.nb, n.a))

\* the Lazy case: a Lazy node whose target is a value or a Variable takes its
\* content
EvalLazy3(s1, node_id, lazy_node, t) ==
  IF IsLiteral(t) \/ t.k = "Variable"
  THEN Rewrite(s1, node_id, t, "lazy", lazy_node, lazy_node, FALSE)
  ELSE IF ~s1.updated THEN evaluate_once(s1, lazy_node)
  ELSE s1

EvalLazy2(st, node_id, e) ==
  IF e.looped THEN Overflow(st)
  ELSE EvalLazy3(WithNb(st, e.nb), node_id, e.inner, Node(e.nb, e.inner))

EvalLazy(st, node_id, n) == EvalLazy2(st, node_id, extract_node(st.ps.nb, n.a))

EvalNode(s0, node_id, n) ==
  CASE IsLiteral(n) \/ n.k = "Variable" -> s0
    [] n.k = "Unary" -> EvalUnary(s0, node_id, n)
    [] n.k = "Binary" -> EvalBinary(s0, node_id, n)
    [] n.k = "If" -> EvalIf(s0, node_id, n)
    [] n.k = "Lambda" -> EvalLambda(s0, node_id, n)
    [] n.k = "Lazy" -> EvalLazy(s0, node_id, n)

\* evaluate_once: an aborted pass (fault) does nothing more
evaluate_once(st, node_id) ==
  IF st.fault # "none" THEN st
  ELSE IF node_id \in st.visited THEN st
  ELSE EvalNode([st EXCEPT !.visited = @ \cup {node_id}], node_id, Node(st.ps.nb, node_id))

\* ------------------------------------------------------------------ inputs
\* lexemes, as sequences of code points
lxT == <<84>>  \* T
lxI2 == <<73, 35>>  \* I#
lxS2 == <<83, 35>>  \* S#
lxUNeg == <<85, 45>>  \* U-
lxBAdd == <<66, 43>>  \* B+
lxBEq == <<66, 61>>  \* B=
lxBApply == <<66, 36>>  \* B$
lxIf == <<63>>  \* ?
lxL2 == <<76, 35>>  \* L#
lxV2 == <<118, 35>>  \* v#
lxBMul == <<66, 42>>  \* B*
lxI3 == <<73, 36>>  \* I$
lxI0 == <<73, 33>>  \* I!
lxI1 == <<73, 34>>  \* I"
lxL1 == <<76, 34>>  \* L"
lxV1 == <<118, 34>>  \* v"
lxL3 == <<76, 36>>  \* L$
lxV3 == <<118, 36>>  \* v$
lxL0 == <<76, 33>>  \* L!
lxV0 == <<118, 33>>  \* v!
lxBSub == <<66, 45>>  \* B-
lxI10 == <<73, 43>>  \* I+
lxF == <<70>>  \* F
lxBConcat == <<66, 46>>  \* B.
lxS3 == <<83, 36>>  \* S$
lxBDiv == <<66, 47>>  \* B/
lxBGt == <<66, 62>>  \* B>
lxS24_4_18 == <<83, 57, 37, 51>>  \* S9%3
lxS13_14 == <<83, 46, 47>>  \* S./
lxV23 == <<118, 56>>  \* v8
lxS33_4 == <<83, 66, 37>>  \* SB%
lxS92_48 == <<83, 125, 81>>  \* S}Q
lxI42 == <<73, 75>>  \* IK
lxBTake == <<66, 84>>  \* BT
lxS2agc4gs == <<83, 35, 97, 103, 99, 52, 103, 115>>  \* S#agc4gs
lxUStrToInt == <<85, 35>>  \* U#
lxUIntToStr == <<85, 36>>  \* U$
lxBareU == <<85>>  \* U
lxBareB == <<66>>  \* B
lxUUnknown == <<85, 97>>  \* Ua
lxBUnknown == <<66, 97>>  \* Ba
lxUExtra == <<85, 45, 45>>  \* U--
lxBExtra == <<66, 43, 43>>  \* B++
lxTBody == <<84, 120>>  \* Tx
lxFBody == <<70, 33>>  \* F!
lxIfBody == <<63, 63>>  \* ??
lxIBad == <<73, 35, 127>>  \* I# and DEL
lxSBad == <<83, 31, 35>>  \* S, the control character US, #
lxLBad == <<76, 233>>  \* L and e-acute
lxVBad == <<118, 127>>  \* v and DEL
lxUnknown == <<88, 35>>  \* X#
lxIWrap == <<73, 65, 51, 51, 63, 38, 45, 106, 113, 81, 107>>  \* IA33?&-jqQk
lxBMod == <<66, 37>>  \* B%
lxBLt == <<66, 60>>  \* B<
lxBOr == <<66, 124>>  \* B|
lxBAnd == <<66, 38>>  \* B&
lxL128 == <<76, 34, 67>>  \* L"C
lxV128 == <<118, 34, 67>>  \* v"C
lxL129 == <<76, 34, 68>>  \* L"D
lxV129 == <<118, 34, 68>>  \* v"D

\* the lexemes the enumerated inputs are made of
Lexemes == {lxT, lxI2, lxS2, lxUNeg, lxBAdd, lxBEq, lxBApply, lxIf, lxL2, lxV2}

\* B$ L# B$ v# v# L# B$ v# v#   (\x. x x)(\x. x x): no normal form
ProgOmega == <<lxBApply, lxL2, lxBApply, lxV2, lxV2, lxL2, lxBApply, lxV2, lxV2>>
\* B$ L# B+ v# v# B* I$ I#   (\x. x + x)(3 * 2)
ProgShareAdd == <<lxBApply, lxL2, lxBAdd, lxV2, lxV2, lxBMul, lxI3, lxI2>>
\* B$ L# B+ ? T v# I! v# B+ I" I"   (\x. (if T then x else 0) + x)(1 + 1)
ProgShareIf == <<lxBApply, lxL2, lxBAdd, lxIf, lxT, lxV2, lxI0, lxV2, lxBAdd, lxI1, lxI1>>
\* B$ L# B+ B$ v# I" B$ v# I# B$ L" v" L$ B* v$ v$   (\f. f 1 + f 2)((\i. i)(\y. y * y))
ProgShareFn == <<lxBApply, lxL2, lxBAdd, lxBApply, lxV2, lxI1, lxBApply, lxV2, lxI2, lxBApply, lxL1, lxV1, lxL3, lxBMul, lxV3, lxV3>>
\* B$ L# I" B+ T T   (\x. 1)(T + T)
ProgConstStuck == <<lxBApply, lxL2, lxI1, lxBAdd, lxT, lxT>>
\* B$ L# I" B$ L# B$ v# v# L# B$ v# v#   (\x. 1) applied to the term without normal form
ProgConstOmega == <<lxBApply, lxL2, lxI1, lxBApply, lxL2, lxBApply, lxV2, lxV2, lxL2, lxBApply, lxV2, lxV2>>
\* B$ L# I" v$   (\x. 1) applied to a free variable
ProgConstFree == <<lxBApply, lxL2, lxI1, lxV3>>
\* B$ L! B+ B$ v! I" B$ v! I# L$ B* v$ v$   (\f. f 1 + f 2)(\y. y * y)
ProgTwice == <<lxBApply, lxL0, lxBAdd, lxBApply, lxV0, lxI1, lxBApply, lxV0, lxI2, lxL3, lxBMul, lxV3, lxV3>>
\* B$ L! B* B+ v! I" B- B$ v! I+ B$ v! I" L$ B$ L" v" B+ v$ I"   (\g. (g + 1) * (g 10 - g 1))(\y. (\z. z)(y + 1))
ProgTwiceStuck == <<lxBApply, lxL0, lxBMul, lxBAdd, lxV0, lxI1, lxBSub, lxBApply, lxV0, lxI10, lxBApply, lxV0, lxI1, lxL3, lxBApply, lxL1, lxV1, lxBAdd, lxV3, lxI1>>
\* B$ L! B+ v! B$ v! v! L$ B$ L" v" B$ v$ F   (\f. f + (f f))(\y. (\z. z)(y F))
ProgSelfLoop == <<lxBApply, lxL0, lxBAdd, lxV0, lxBApply, lxV0, lxV0, lxL3, lxBApply, lxL1, lxV1, lxBApply, lxV3, lxF>>
\* B$ L" B* v" B$ v" v" L" B$ L$ v$ v"   (\f. f * (f f))(\y. (\z. z) y)
ProgSelfArg == <<lxBApply, lxL1, lxBMul, lxV1, lxBApply, lxV1, lxV1, lxL1, lxBApply, lxL3, lxV3, lxV1>>
\* B. I# S#   concat of an Integer and a String
ProgConcatMismatch == <<lxBConcat, lxI2, lxS2>>
\* ? I# S# S$   If with an Integer predicate
ProgIfInt == <<lxIf, lxI2, lxS2, lxS3>>
\* ? I" B+ I" I" T   If with an Integer predicate and a reducible branch
ProgIfIntBranch == <<lxIf, lxI1, lxBAdd, lxI1, lxI1, lxT>>
\* B+ I# I$ T   a complete term followed by one more token
ProgTrailing == <<lxBAdd, lxI2, lxI3, lxT>>
\* B/ I" I!   1 / 0
ProgDivZero == <<lxBDiv, lxI1, lxI0>>
\* ? B> I# I$ S9%3 S./   test_if
ProgIfTest == <<lxIf, lxBGt, lxI2, lxI3, lxS24_4_18, lxS13_14>>
\* B$ L# B$ L" B+ v" v" B* I$ I# v8   test_lambda_apply1
ProgApply1 == <<lxBApply, lxL2, lxBApply, lxL1, lxBAdd, lxV1, lxV1, lxBMul, lxI3, lxI2, lxV23>>
\* B$ B$ L# L$ v# B. SB% S}Q IK   test_lambda_apply2 with shorter strings
ProgApply2 == <<lxBApply, lxBApply, lxL2, lxL3, lxV2, lxBConcat, lxS33_4, lxS92_48, lxI42>>
\* test_take: BT I# S#agc4gs
ProgTakeTest == <<lxBTake, lxI2, lxS2agc4gs>>
\* BT I$ S#: three characters of a string of one
ProgTakeLong == <<lxBTake, lxI3, lxS2>>
\* BT I" S#: the whole string
ProgTakeAll == <<lxBTake, lxI1, lxS2>>
\* BT I! S#: no character
ProgTakeNone == <<lxBTake, lxI0, lxS2>>
\* B$ L! B+ B$ v! I" B$ v! I# L# L$ v#   (\f. f 1 + f 2)(\x. \y. x)
ProgCloneLambda == <<lxBApply, lxL0, lxBAdd, lxBApply, lxV0, lxI1, lxBApply, lxV0, lxI2, lxL2, lxL3, lxV2>>
\* B$ B$ L# L$ B+ v# v$ I" I#   (\x. \y. x + y) 1 2
ProgCurried == <<lxBApply, lxBApply, lxL2, lxL3, lxBAdd, lxV2, lxV3, lxI1, lxI2>>
\* ? B= I" I" B+ I" I" B+ I# I#   if 1 = 1 then 1 + 1 else 2 + 2
ProgIfLazy == <<lxIf, lxBEq, lxI1, lxI1, lxBAdd, lxI1, lxI1, lxBAdd, lxI2, lxI2>>
\* ? B= I" I# B+ I" I" B+ I# I#   if 1 = 2 then 1 + 1 else 2 + 2
ProgIfLazyElse == <<lxIf, lxBEq, lxI1, lxI2, lxBAdd, lxI1, lxI1, lxBAdd, lxI2, lxI2>>
\* B$ L# B+ v# ? B= I" I" v# I! B+ I" I"   (\x. x + (if 1 = 1 then x else 0))(1 + 1)
ProgIfShared == <<lxBApply, lxL2, lxBAdd, lxV2, lxIf, lxBEq, lxI1, lxI1, lxV2, lxI0, lxBAdd, lxI1, lxI1>>
\* ? ? B= I" I" F T B+ I" I" B+ I# I#   if (if 1 = 1 then F else T) then 1 + 1 else 2 + 2
ProgIfNested == <<lxIf, lxIf, lxBEq, lxI1, lxI1, lxF, lxT, lxBAdd, lxI1, lxI1, lxBAdd, lxI2, lxI2>>
\* B$ L# ? v# B+ I" I" B+ I# I# B= I" I"   (\p. if p then 1 + 1 else 2 + 2)(1 = 1)
ProgIfArg == <<lxBApply, lxL2, lxIf, lxV2, lxBAdd, lxI1, lxI1, lxBAdd, lxI2, lxI2, lxBEq, lxI1, lxI1>>
\* B+ B+ I" I" B+ I# I#   (1 + 1) + (2 + 2)
ProgTwoRedexes == <<lxBAdd, lxBAdd, lxI1, lxI1, lxBAdd, lxI2, lxI2>>

\* the listed programs
Programs == {ProgOmega, ProgShareAdd, ProgShareIf, ProgShareFn,
             ProgConstStuck, ProgConstOmega, ProgConstFree, ProgTwice,
             ProgTwiceStuck, ProgSelfLoop, ProgSelfArg, ProgConcatMismatch,
             ProgIfInt, ProgIfIntBranch, ProgTrailing, ProgDivZero,
             ProgIfTest, ProgApply1, ProgApply2,
             ProgTakeTest, ProgTakeLong, ProgTakeAll, ProgTakeNone,
             ProgCloneLambda, ProgCurried, ProgIfLazy, ProgIfLazyElse,
             ProgIfShared, ProgIfNested, ProgIfArg, ProgTwoRedexes}

\* the lexemes joined by one space
RECURSIVE Join(_)
Join(lexemes) ==
  IF lexemes = <<>> THEN <<>>
  ELSE IF Len(lexemes) = 1 THEN lexemes[1]
  ELSE lexemes[1] \o <<32>> \o Join(Tail(lexemes))

LexemeSeqs == UNION {[1..n -> Lexemes] : n \in 0..MaxLexemes}

\* the enumerated integer literals: every body of at most MaxDigits digits
\* among ! (0), " (1), # (2) and ~ (93)
DigitChars == {33, 34, 35, 126}

Bodies == UNION {[1..n -> DigitChars] : n \in 0..MaxDigits}

IntLexemes == {<<73>> \o b : b \in Bodies}

\* U$ i, U# U$ i and U$ U- i for every enumerated literal i
ProgsIntToStr ==
  {<<lxUIntToStr, i>> : i \in IntLexemes}
    \cup {<<lxUStrToInt, lxUIntToStr, i>> : i \in IntLexemes}
    \cup {<<lxUIntToStr, lxUNeg, i>> : i \in IntLexemes}

\* lexemes that are not well formed
Malformed == {lxBareU, lxBareB, lxUUnknown, lxBUnknown, lxUExtra, lxBExtra,
              lxTBody, lxFBody, lxIfBody, lxIBad, lxSBad, lxLBad, lxVBad, lxUnknown}

\* a malformed lexeme alone, after and before a well-formed one
ProgsMalformed ==
  {<<m>> : m \in Malformed}
    \cup {<<lxUNeg, m>> : m \in Malformed}
    \cup {<<m, lxI2>> : m \in Malformed}

\* one integer literal: every enumerated one, and the numeral of 2^64 + 2
ProgsLiteral == {<<i>> : i \in IntLexemes} \cup {<<lxIWrap>>}

\* the lexemes of the integer i, |i| < 94: `I` and one digit, after `U-` when
\* i is negative
SignedLit(i) == IF i < 0 THEN <<lxUNeg, <<73, 33 - i>>>> ELSE <<<<73, 33 + i>>>>

\* B<op> a b for the integer primitives and every a, b of -MaxOperand..MaxOperand
ArithOps == {lxBAdd, lxBSub, lxBMul, lxBDiv, lxBMod, lxBLt, lxBGt}

ProgsArith ==
  {<<op>> \o SignedLit(a) \o SignedLit(b) :
     op \in ArithOps, a \in (0 - MaxOperand)..MaxOperand, b \in (0 - MaxOperand)..MaxOperand}

\* a primitive with one operand that decides the result, the other being a
\* literal of the wrong kind (T, I") or an operand not yet reduced (B= I" I")
ProgsOneOperand ==
  {<<lxBMul, lxI0, lxT>>, <<lxBMul, lxT, lxI0>>,
   <<lxBMul, lxI0, lxBAdd, lxI1, lxI1>>, <<lxBMul, lxBAdd, lxI1, lxI1, lxI0>>,
   <<lxBMul, lxI2, lxBAdd, lxI1, lxI1>>,
   <<lxBOr, lxT, lxI1>>, <<lxBOr, lxT, lxBEq, lxI1, lxI1>>,
   <<lxBOr, lxBEq, lxI1, lxI1, lxT>>,
   <<lxBAnd, lxF, lxI1>>, <<lxBAnd, lxF, lxBEq, lxI1, lxI1>>,
   <<lxBAnd, lxBEq, lxI1, lxI1, lxF>>}

\* lambdas whose source identifiers are in the range of the identifier counter
\* (128, 129), re-used by a nested or a sibling lambda, or free in a body
ProgsBinders ==
  {<<lxL128, lxV128>>, <<lxL0, lxV128>>, <<lxL2, lxL128, lxV2>>,
   <<lxL128, lxL128, lxV128>>, <<lxL129, lxL128, lxV129>>,
   <<lxBApply, lxL2, lxV2, lxL2, lxV2>>,
   <<lxBApply, lxL129, lxV128, lxL128, lxV129>>,
   <<lxBAdd, lxL128, lxV128, lxL128, lxV129>>,
   <<lxBApply, lxBApply, lxL129, lxL128, lxV129, lxI1, lxI2>>,
   <<lxBApply, lxBApply, lxL2, lxL2, lxV2, lxI1, lxI2>>,
   <<lxBApply, lxL0, lxV128, lxI1>>}

Generated == ProgsIntToStr \cup ProgsMalformed \cup ProgsLiteral \cup ProgsArith
               \cup ProgsOneOperand \cup ProgsBinders

\* inputs: every sequence of at most MaxLexemes lexemes, the listed programs,
\* the generated programs,
\* and inputs that differ in their whitespace only
Inputs == {Join(l) : l \in LexemeSeqs \cup Programs \cup Generated}
          \cup {<<32>>, <<32, 10, 9>>, <<32>> \o Join(ProgIfTest) \o <<10>>,
                lxBAdd \o <<9, 32>> \o lxI2 \o <<13, 10>> \o lxI3}

\* ------------------------------------------------------------ graph helpers
\* the child handles of a node (a Lazy's target included)
Children(n) ==
  CASE n.k \in {"Unary", "Lambda", "Lazy"} -> {n.a}
    [] n.k = "Binary" -> {n.a, n.b}
    [] n.k = "If" -> {n.a, n.b, n.c}
    [] OTHER -> {}

RECURSIVE ReachFrom(_,_,_)
ReachFrom(nb, frontier, seen) ==
  IF frontier = {} THEN seen
  ELSE LET next == UNION {Children(Node(nb, h)) : h \in frontier}
       IN ReachFrom(nb, next \ (seen \cup frontier), seen \cup frontier)

\* the handles reachable from h, h included
Reach(nb, h) == ReachFrom(nb, {h}, {})

\* the node a handle stands for: the first node of its Lazy chain that is not
\* Lazy (the handle itself when the chain loops)
Resolve(nb, h) == extract_node(nb, h).inner

\* the children a node demands under strict evaluation: the operand of a
\* Unary, both operands of a primitive Binary, the function of an Apply, the
\* predicate of an If, the target of a Lazy
StrictChildren(n) ==
  CASE n.k \in {"Unary", "Lazy"} -> {n.a}
    [] n.k = "Binary" -> IF n.op = "Apply" THEN {n.a} ELSE {n.a, n.b}
    [] n.k = "If" -> {n.a}
    [] OTHER -> {}

RECURSIVE DemandFrom(_,_,_)
DemandFrom(nb, frontier, seen) ==
  IF frontier = {} THEN seen
  ELSE LET next == UNION {StrictChildren(Node(nb, h)) : h \in frontier}
       IN DemandFrom(nb, next \ (seen \cup frontier), seen \cup frontier)

\* the handles whose value the value of the root needs
Demanded(nb, root) == DemandFrom(nb, {root}, {})

\* the kind of literal a primitive takes as first and as second operand
\* ("Same": Equal takes two literals of one kind)
OperandKind1(op) ==
  CASE op \in {"Negate", "IntToStr", "Add", "Sub", "Mul", "Div", "Modulo",
               "IntegerLarger", "IntegerSmaller", "TakeStr", "DropStr"} -> "Integer"
    [] op \in {"Not", "Or", "And"} -> "Boolean"
    [] op \in {"StrToInt", "StrConcat"} -> "String"
    [] OTHER -> "Same"

OperandKind2(op) ==
  CASE op \in {"Add", "Sub", "Mul", "Div", "Modulo", "IntegerLarger",
               "IntegerSmaller"} -> "Integer"
    [] op \in {"Or", "And"} -> "Boolean"
    [] op \in {"StrConcat", "TakeStr", "DropStr"} -> "String"
    [] OTHER -> "Same"

\* node h is a primitive one of whose operands is a literal of the wrong kind
Mismatched(nb, h) ==
  LET n == Node(nb, h)
      t1 == Node(nb, Resolve(nb, n.a))
      t2 == Node(nb, Resolve(nb, n.b))
  IN \/ /\ n.k = "Unary"
        /\ IsLiteral(t1)
        /\ t1.k # OperandKind1(n.op)
     \/ /\ n.k = "Binary"
        /\ n.op \notin {"Apply", "Equal"}
        /\ \/ IsLiteral(t1) /\ t1.k # OperandKind1(n.op)
           \/ IsLiteral(t2) /\ t2.k # OperandKind2(n.op)
     \/ /\ n.k = "Binary"
        /\ n.op = "Equal"
        /\ IsLiteral(t1)
        /\ IsLiteral(t2)
        /\ t1.k # t2.k

\* node h is an If whose predicate is a literal that is not a Boolean
BadIf(nb, h) ==
  LET n == Node(nb, h)
      p == Node(nb, Resolve(nb, n.a))
  IN n.k = "If" /\ IsLiteral(p) /\ p.k # "Boolean"

\* --------------------------------------------------------------- the program
\* parse (ast.rs) as a state machine: tokenize, construct_node, alpha_convert,
\* one step per iteration of the reduction loop, and the return.
VARIABLES
  input,       \* the text given to parse
  pc,          \* "tokenize", "construct", "alpha", "loop", "return", "done";
               \* "aborted" when the process has panicked or overflowed its stack
  token_list,  \* the result of tokenize
  queue,       \* the VecDeque construct_node pops from
  ps,          \* parser_state: nb (node_buffer), var_id, root_id
  iter,        \* the number of iterations of the loop made so far
  updated,     \* the flag `updated` of the last iteration
  result,      \* what parse returned: status "Ok" or the ParseError, and the node
  fault,       \* "none", "Panic" or "StackOverflow"
  step,        \* history: what the last iteration rewrote
  contracted,  \* history: the redexes contracted so far (node, content before)
  demand,      \* history: whether an iteration started with a demanded primitive
               \* that has a wrong-kind literal operand (mismatch), or with a
               \* demanded If whose predicate is a non-Boolean literal (badif)
  copies,      \* history: If nodes overwritten by the content of a branch that
               \* was referenced through a Lazy node
  calls,       \* history: the calls of ICFPString functions made on their own
               \* (function, argument, return value, error), outside parse
  overflow_checks  \* the build: TRUE when an arithmetic overflow panics (the
               \* profile has overflow checks), FALSE when it wraps

vars == <<input, pc, token_list, queue, ps, iter, updated, result, fault, step,
          contracted, demand, copies, calls, overflow_checks>>

NoStep == [how |-> "none", node |-> 0, f |-> 0, x |-> 0, dirty |-> {},
           xreach |-> {}, branch |-> FALSE, count |-> 0, clone |-> NoClone]

NoResult == [status |-> "none", node |-> NoNode]

Init ==
  /\ input \in Inputs
  /\ pc = "tokenize"
  /\ token_list = <<>>
  /\ queue = <<>>
  /\ ps = NewFactory
  /\ iter = 0
  /\ updated = FALSE
  /\ result = NoResult
  /\ fault = "none"
  /\ step = NoStep
  /\ contracted = {}
  /\ demand = [mismatch |-> FALSE, badif |-> FALSE]
  /\ copies = {}
  /\ calls = <<>>
  /\ overflow_checks \in BOOLEAN

\* ast.rs:322  let token_list = tokenizer::tokenize(input)?;
TokenizeWith(t) ==
  /\ token_list' = t.toks
  /\ queue' = t.toks
  /\ pc' = IF t.err = "none" THEN "construct"
           ELSE IF t.err = "Panic" THEN "aborted" ELSE "done"
  /\ fault' = IF t.err = "Panic" THEN "Panic" ELSE fault
  /\ result' = IF t.err \notin {"none", "Panic"}
               THEN [status |-> t.err, node |-> NoNode] ELSE result

\* a variant of Tokenize in which each call, not the build, decides whether an
\* overflow panics
TokenizeMut ==
  /\ pc = "tokenize"
  /\ \E t \in tokenize_outcomes(input) : TokenizeWith(t)
  /\ UNCHANGED <<input, overflow_checks, ps, iter, updated, step, contracted, demand,
                 copies, calls>>

Tokenize ==
  /\ pc = "tokenize"
  /\ TokenizeWith(tokenize_build(input, overflow_checks))
  /\ UNCHANGED <<input, overflow_checks, ps, iter, updated, step, contracted, demand, copies, calls>>

\* ast.rs:323-325  construct_node(&mut parser_state, &mut queue)?; root_id = ...
ConstructWith(r) ==
  /\ queue' = r.queue
  /\ ps' = IF r.err = "none" THEN [r.ps EXCEPT !.root_id = r.id] ELSE r.ps
  /\ pc' = IF r.err = "none" THEN "alpha" ELSE "done"
  /\ result' = IF r.err = "none" THEN result ELSE [status |-> r.err, node |-> NoNode]

Construct ==
  /\ pc = "construct"
  /\ ConstructWith(construct_node(ps, queue))
  /\ UNCHANGED <<input, overflow_checks, token_list, iter, updated, fault, step, contracted, demand, copies,
                 calls>>

\* ast.rs:328-335  alpha_convert(root_id, &mut parser_state, &mut visited)
AlphaConvert ==
  /\ pc = "alpha"
  /\ ps' = alpha_convert(ps, ps.root_id, {}).ps
  /\ pc' = "loop"
  /\ UNCHANGED <<input, overflow_checks, token_list, queue, iter, updated, result, fault, step,
                 contracted, demand, copies, calls>>

\* the handles below the branches of the demanded Ifs whose predicate is a
\* literal that is not a Boolean
BadIfBranches(nb, root) ==
  UNION {Reach(nb, Node(nb, i).b) \cup Reach(nb, Node(nb, i).c) :
           i \in {h \in Demanded(nb, root) : BadIf(nb, h)}}

\* what an iteration did, for the history variables
StepOf(old, st) ==
  IF st.rw = <<>> THEN NoStep
  ELSE LET r == st.rw[1]
       IN [how |-> r.how, node |-> r.node, f |-> r.f, x |-> r.x,
           dirty |-> {h \in 0..(Len(old.nb) - 1) :
                        /\ h # r.node
                        /\ Node(st.ps.nb, h) # Node(old.nb, h)
                        /\ ~(Node(old.nb, h).k = "Lazy" /\ Node(st.ps.nb, h).k = "Lazy")},
           xreach |-> IF r.how = "apply" THEN Reach(old.nb, r.x) ELSE {},
           branch |-> r.node \in BadIfBranches(old.nb, old.root_id),
           count |-> Len(st.rw),
           clone |-> st.clone]

\* ast.rs:340-368  one iteration of `for iter in 0..200`; st is the state
\* evaluate_once leaves
PassWith(st) ==
  IF st.fault # "none"
  THEN /\ pc' = "aborted"
       /\ fault' = st.fault
       /\ UNCHANGED <<ps, iter, updated, step, contracted, copies>>
  ELSE /\ ps' = st.ps
       /\ updated' = st.updated
       /\ iter' = iter + 1
       /\ pc' = IF ~st.updated \/ iter + 1 = IterCap THEN "return" ELSE "loop"
       /\ step' = StepOf(ps, st)
       /\ contracted' = contracted \cup
            {[node |-> st.rw[i].node, pre |-> st.rw[i].pre] :
               i \in {j \in 1..Len(st.rw) : st.rw[j].how # "lazy"}}
       /\ copies' = copies \cup
            {[copy |-> st.rw[i].node, of |-> st.rw[i].x,
              content |-> Node(st.ps.nb, st.rw[i].node)] :
               i \in {j \in 1..Len(st.rw) :
                        /\ st.rw[j].how = "if"
                        /\ st.rw[j].lazy
                        /\ Node(st.ps.nb, st.rw[j].node).k \in {"Unary", "Binary", "If"}}}
       /\ fault' = fault

Pass ==
  /\ pc = "loop"
  /\ iter < IterCap
  /\ PassWith(evaluate_once(PassState(ps), ps.root_id))
  /\ demand' = [mismatch |-> demand.mismatch \/
                              (\E h \in Demanded(ps.nb, ps.root_id) : Mismatched(ps.nb, h)),
                badif |-> demand.badif \/
                           (\E h \in Demanded(ps.nb, ps.root_id) : BadIf(ps.nb, h))]
  /\ UNCHANGED <<input, overflow_checks, token_list, queue, result, calls>>

\* ast.rs:369-370  Ok(node_factory[root_id].clone())
Return ==
  /\ pc = "return"
  /\ result' = [status |-> "Ok", node |-> Node(ps.nb, ps.root_id)]
  /\ pc' = "done"
  /\ UNCHANGED <<input, overflow_checks, token_list, queue, ps, iter, updated, fault, step,
                 contracted, demand, copies, calls>>

Next == Tokenize \/ Construct \/ AlphaConvert \/ Pass \/ Return

Spec == Init /\ [][Next]_vars

\* ------------------------------------------------------ the codec on its own
\* The functions of ICFPString called directly, one after the other on the
\* value the last one returned, as the tests of icfpstring.rs do
\* (from_str(..).to_i64(), from_i64(..).to_string(), from_str(..).iter(), ..).

\* integers beyond the enumerated range: test_fromi64's 1337, and the first
\* and last numerals of three, four and five digits
ListedInts == {1337, 8835, 8836, 830583, 830584, 78074895, 78074896, 2147483647}

IntArgs == 0..MaxInt \cup ListedInts

\* wire characters: ! (digit 0), " (1), / and 6 (test_toi64), ~ (93), and two
\* characters outside 33..126: space and DEL
WireChars == {33, 34, 47, 54, 126, 32, 127}

\* A33?&-jqQk: the ten-digit numeral of 2^64 + 2
WireWrap == <<65, 51, 51, 63, 38, 45, 106, 113, 81, 107>>

\* every wire string of at most MaxWire enumerated characters, every string of
\* one character from 31 to 128, and the listed string
WireArgs ==
  UNION {[1..n -> WireChars] : n \in 0..MaxWire}
    \cup {<<c>> : c \in 31..128}
    \cup {WireWrap}

Call(fn, arg, ret, err) == [fn |-> fn, arg |-> arg, ret |-> ret, err |-> err]

LastCall == calls[Len(calls)]

\* the argument of the first call is held with its type

CodecInit ==
  /\ \/ input \in {[type |-> "i64", v |-> n] : n \in IntArgs}
     \/ input \in {[type |-> "Vec<char>", v |-> w] : w \in WireArgs}
  /\ pc = "codec"
  /\ token_list = <<>>
  /\ queue = <<>>
  /\ ps = NewFactory
  /\ iter = 0
  /\ updated = FALSE
  /\ result = NoResult
  /\ fault = "none"
  /\ step = NoStep
  /\ contracted = {}
  /\ demand = [mismatch |-> FALSE, badif |-> FALSE]
  /\ copies = {}
  /\ calls = <<>>
  /\ overflow_checks \in BOOLEAN

\* the call returned: the chain goes on unless it returned an error
Returned(c) ==
  /\ calls' = Append(calls, c)
  /\ pc' = IF c.err = "Panic" THEN "aborted" ELSE IF c.err # "none" THEN "done" ELSE "codec"
  /\ fault' = IF c.err = "Panic" THEN "Panic" ELSE fault
  /\ UNCHANGED <<input, overflow_checks, token_list, queue, ps, iter, updated, result, step, contracted,
                 demand, copies>>

\* ICFPString::from_str on a Vec<char>: the input, or what to_string returned
CallFromStrOn(chars) ==
  Returned(Call("from_str", chars, from_str(chars).s, from_str(chars).err))

CallFromStr ==
  /\ pc = "codec"
  /\ Len(calls) < MaxCalls
  /\ \/ calls = <<>> /\ input.type = "Vec<char>" /\ CallFromStrOn(input.v)
     \/ calls # <<>> /\ LastCall.fn = "to_string" /\ CallFromStrOn(LastCall.ret)

\* ICFPString::from_i64 on an i64: the input, or what to_i64 returned
CallFromI64On(n) == Returned(Call("from_i64", n, from_i64(n), "none"))

CallFromI64 ==
  /\ pc = "codec"
  /\ Len(calls) < MaxCalls
  /\ \/ calls = <<>> /\ input.type = "i64" /\ CallFromI64On(input.v)
     \/ calls # <<>> /\ LastCall.fn = "to_i64" /\ CallFromI64On(LastCall.ret)

\* a method of the ICFPString the last call returned
HasString ==
  /\ pc = "codec"
  /\ Len(calls) < MaxCalls
  /\ calls # <<>>
  /\ LastCall.fn \in {"from_str", "from_i64"}

CallToI64 ==
  /\ HasString
  /\ Returned(Call("to_i64", LastCall.ret, to_i64_build(LastCall.ret, overflow_checks).v,
                   to_i64_build(LastCall.ret, overflow_checks).err))

CallToString ==
  /\ HasString
  /\ Returned(Call("to_string", LastCall.ret, to_string(LastCall.ret).chars,
                   to_string(LastCall.ret).err))

CallIter ==
  /\ HasString
  /\ Returned(Call("iter", LastCall.ret, iter_chars(LastCall.ret), "none"))

CodecNext == CallFromStr \/ CallFromI64 \/ CallToI64 \/ CallToString \/ CallIter

CodecSpec == CodecInit /\ [][CodecNext]_vars

\* -------------------------------------------------------------- properties
\* parse has returned Ok
ReturnedOk == pc = "done" /\ result.status = "Ok"

\* C4: parse returns Ok(node) only when node is a Boolean, Integer or String
\* literal; a root that a full pass leaves unreduced and that is not such a
\* value is reported as an error, never returned as Ok.
C4_OkOnlyForLiterals == ReturnedOk => IsLiteral(result.node)

\* C5: parse terminates for every input: the loop makes at most IterCap passes
\* and no pass recurses without bound on an arena reachable from a parsed
\* program.
C5_EveryPassTerminates == iter <= IterCap /\ fault # "StackOverflow"

\* C6: when the loop has used up its IterCap iterations and the last one still
\* made a rewrite, parse reports BudgetExceeded and does not return Ok.
C6_BudgetExceededReported ==
  (pc = "done" /\ iter = IterCap /\ updated) => result.status = "BudgetExceeded"

\* C7: whenever tokens remain in the queue after construct_node has built one
\* complete term, parse returns CannotConsumeToken; it does not go on to rename
\* or reduce the first term.
C7_TrailingTokensRejected ==
  (pc \notin {"tokenize", "construct"} /\ queue # <<>>)
    => (pc = "done" /\ result.status = "CannotConsumeToken")

\* C9: when a primitive whose value the root needs has an operand reduced to a
\* literal of the wrong kind (or Equal has two literals of different kinds),
\* parse ends with an error: it returns neither Ok with the primitive left
\* unreduced nor a literal.
C9_TypeMismatchIsError == (pc = "done" /\ demand.mismatch) => result.status # "Ok"

\* C10: when the predicate of an If whose value the root needs is a literal
\* that is not a Boolean, parse ends with an error: no pass rewrites a node
\* below the branches of that If, and parse does not return Ok.
C10_IfPredicateIsError ==
  /\ ~step.branch
  /\ (pc = "done" /\ demand.badif) => result.status # "Ok"

\* the operands a token takes in the prefix grammar
Arity(tok) ==
  CASE tok.k \in {"Unary", "Lambda"} -> 1
    [] tok.k = "Binary" -> 2
    [] tok.k = "If" -> 3
    [] OTHER -> 0

\* a left-to-right scan: the number of tokens of the first complete term of
\* toks, 0 when toks ends before the term is complete.  open is the number of
\* terms still to read after the first i tokens.
RECURSIVE TermScan(_,_,_)
TermScan(toks, i, open) ==
  IF open = 0 THEN i
  ELSE IF i = Len(toks) THEN 0
  ELSE TermScan(toks, i + 1, open - 1 + Arity(toks[i + 1]))

TermLen(toks) == TermScan(toks, 0, 1)

\* the tokens of the tree below handle h, in prefix order
RECURSIVE Preorder(_,_)
Preorder(nb, h) ==
  LET n == Node(nb, h)
      head == <<Tok(n.k, n.op, n.v, n.s)>>
  IN CASE n.k \in {"Unary", "Lambda"} -> head \o Preorder(nb, n.a)
       [] n.k = "Binary" -> head \o Preorder(nb, n.a) \o Preorder(nb, n.b)
       [] n.k = "If" -> head \o Preorder(nb, n.a) \o Preorder(nb, n.b) \o Preorder(nb, n.c)
       [] OTHER -> head

\* construct_node has run on a token list that tokenize produced
Constructed ==
  /\ pc \in {"alpha", "loop", "return", "done"}
  /\ result.status \notin {"InvalidToken", "InvalidCharacter"}

\* C8: construct_node consumes tokens in prefix order with fixed arity
\* (Boolean/Integer/String/Variable 0, Unary/Lambda 1, Binary 2, If 3): it
\* returns CannotFindNextToken, which parse returns with no reduction pass made,
\* exactly when the token list (the empty one included) ends before the first
\* term is complete; otherwise the tree it builds reads, in prefix order, as
\* the tokens of the first term, and the queue keeps the tokens after it.
C8_PrefixArity ==
  Constructed =>
    /\ (result.status = "CannotFindNextToken") <=> (TermLen(token_list) = 0)
    /\ (TermLen(token_list) = 0) => (pc = "done" /\ iter = 0 /\ queue = <<>>)
    /\ (TermLen(token_list) > 0) =>
         queue = SubSeq(token_list, TermLen(token_list) + 1, Len(token_list))
    /\ (TermLen(token_list) > 0 /\ pc = "alpha") =>
         Preorder(ps.nb, ps.root_id) = SubSeq(token_list, 1, TermLen(token_list))

\* parse has returned CannotFindNextToken on a token list of several tokens
C8_Witness ==
  /\ pc = "done"
  /\ result.status = "CannotFindNextToken"
  /\ Len(token_list) >= 2
  /\ iter = 0

\* C1: over the whole run each reducible node of an applied argument is
\* contracted at most once, whatever position the occurrences of the bound
\* variable have: when an If selects a branch that refers to the argument
\* through a Lazy node, the redex of the argument is not contracted once in the
\* If node that received its content and once more in the argument itself.
C1_ArgumentContractedOnce ==
  \A c \in copies :
    ~ /\ [node |-> c.copy, pre |-> c.content] \in contracted
      /\ [node |-> c.of, pre |-> c.content] \in contracted

\* the token list is  B$ L<v> I<n> X  with X one complete term
ConstantFunctionApplied ==
  /\ Len(token_list) >= 4
  /\ token_list[1] = Tok("Binary", "Apply", 0, <<>>)
  /\ token_list[2].k = "Lambda"
  /\ token_list[3].k = "Integer"
  /\ TermLen(token_list) = Len(token_list)

\* C2: the beta step of Binary(Apply, f, x) leaves x and every node reachable
\* from x as they were, and an argument that is never demanded is never
\* reduced: B$ L<v> I<n> X returns Integer(n) for every X.
C2_ArgumentUntouched ==
  /\ step.how = "apply" => step.dirty \cap step.xreach = {}
  /\ (ConstantFunctionApplied /\ pc \in {"return", "done", "aborted"}) =>
       /\ pc # "aborted"
       /\ iter <= 2
       /\ pc = "done" => result = [status |-> "Ok", node |-> IntegerN(token_list[3].v)]

\* the reduction loop of parse from iteration i on, as a function
RECURSIVE reduce_loop(_,_)
reduce_loop(state, i) ==
  IF i = IterCap THEN [fault |-> "none", ps |-> state]
  ELSE LET st == evaluate_once(PassState(state), state.root_id)
       IN IF st.fault # "none" THEN [fault |-> st.fault, ps |-> state]
          ELSE IF ~st.updated THEN [fault |-> "none", ps |-> st.ps]
          ELSE reduce_loop(st.ps, i + 1)

\* what parse does with a token list: construct_node, alpha_convert, the loop,
\* the return
parse_tokens(toks) ==
  LET r == construct_node(NewFactory, toks)
      ps0 == alpha_convert([r.ps EXCEPT !.root_id = r.id], r.id, {}).ps
      out == reduce_loop(ps0, 0)
  IN IF r.err # "none" THEN [status |-> r.err, node |-> NoNode]
     ELSE IF out.fault # "none" THEN [status |-> out.fault, node |-> NoNode]
     ELSE [status |-> "Ok", node |-> Node(out.ps.nb, out.ps.root_id)]

\* the free variable identifiers of the tree below h
RECURSIVE FreeVars(_,_)
FreeVars(nb, h) ==
  LET n == Node(nb, h)
  IN CASE n.k = "Variable" -> {n.v}
       [] n.k = "Lambda" -> FreeVars(nb, n.a) \ {n.v}
       [] n.k = "Unary" -> FreeVars(nb, n.a)
       [] n.k = "Binary" -> FreeVars(nb, n.a) \cup FreeVars(nb, n.b)
       [] n.k = "If" -> FreeVars(nb, n.a) \cup FreeVars(nb, n.b) \cup FreeVars(nb, n.c)
       [] OTHER -> {}

\* the parts of a token list  B$ L<v> body F
BodyOf(toks) == SubSeq(toks, 3, 2 + TermLen(SubSeq(toks, 3, Len(toks))))
FunOf(toks) == SubSeq(toks, 3 + Len(BodyOf(toks)), Len(toks))

\* the token list is  B$ L<v> body F  where F is a closed lambda term, body
\* does not bind v again and has several occurrences of v
SharedLambda(toks) ==
  /\ Len(toks) >= 6
  /\ toks[1] = Tok("Binary", "Apply", 0, <<>>)
  /\ toks[2].k = "Lambda"
  /\ TermLen(toks) = Len(toks)
  /\ FunOf(toks)[1].k = "Lambda"
  /\ LET r == construct_node(NewFactory, FunOf(toks))
     IN FreeVars(r.ps.nb, r.id) = {}
  /\ \A i \in 1..Len(BodyOf(toks)) :
       ~(BodyOf(toks)[i].k = "Lambda" /\ BodyOf(toks)[i].v = toks[2].v)
  /\ Cardinality({i \in 1..Len(BodyOf(toks)) :
                    BodyOf(toks)[i] = Tok("Variable", "", toks[2].v, <<>>)}) >= 2

\* one more than the largest variable identifier of a token list
IdSpan(toks) ==
  LET ids == {toks[i].v : i \in {j \in 1..Len(toks) : toks[j].k \in {"Lambda", "Variable"}}}
  IN 1 + CHOOSE m \in ids \cup {0} : \A x \in ids \cup {0} : x <= m

\* the k-th copy of the tokens of F, its identifiers renamed apart
CopyOf(F, k, span) ==
  [i \in 1..Len(F) |->
     IF F[i].k \in {"Lambda", "Variable"} THEN [F[i] EXCEPT !.v = @ + k * span]
     ELSE F[i]]

RECURSIVE InlineFrom(_,_,_,_,_,_)
InlineFrom(body, v, F, span, i, k) ==
  IF i > Len(body) THEN <<>>
  ELSE IF body[i] = Tok("Variable", "", v, <<>>)
       THEN CopyOf(F, k, span) \o InlineFrom(body, v, F, span, i + 1, k + 1)
       ELSE <<body[i]>> \o InlineFrom(body, v, F, span, i + 1, k)

\* body with every occurrence of v replaced by its own copy of F
Inline(toks) == InlineFrom(BodyOf(toks), toks[2].v, FunOf(toks), IdSpan(toks), 1, 1)

\* two results of parse agree: the same status and the same literal, or the
\* same kind of node when the result is not a literal
SameOutcome(r1, r2) ==
  /\ r1.status = r2.status
  /\ IF IsLiteral(r1.node) \/ IsLiteral(r2.node) THEN r1.node = r2.node
     ELSE r1.node.k = r2.node.k /\ r1.node.op = r2.node.op

\* C3: when one Lambda node is applied more than once, every application
\* yields what applying an untouched copy of the lambda to the same argument
\* yields: the result of  B$ L<v> body F  is the result of body with each
\* occurrence of v replaced by its own copy of F.
C3_ApplicationsIndependent ==
  (pc = "done" /\ SharedLambda(token_list))
    => SameOutcome(result, parse_tokens(Inline(token_list)))

\* the token list is `B<op> <first> <second>` with literal operands of the
\* kinds k1 and k2
IsCall2(op, k1, k2) ==
  /\ Len(token_list) = 3
  /\ token_list[1] = Tok("Binary", op, 0, <<>>)
  /\ token_list[2].k = k1
  /\ token_list[3].k = k2

\* C11: `BT n s` with 0 <= n <= len(s) returns exactly the first n characters
\* of s, and with n > len(s) it is a fatal error: parse never returns a String
\* shorter than n characters.
C11_TakeExact ==
  (pc = "done" /\ IsCall2("TakeStr", "Integer", "String"))
    => /\ token_list[2].v <= Len(token_list[3].s)
       /\ result = [status |-> "Ok",
                    node |-> StringN(SubSeq(token_list[3].s, 1, token_list[2].v))]

\* C12: `U$` applied to a negative Integer is an error reported to the caller
\* and produces no String; on every n >= 0 it is the inverse of StrToInt:
\* `U# U$ n` evaluates to Integer(n).
C12_IntToStrInverse ==
  /\ (/\ pc = "done"
      /\ Len(token_list) = 3
      /\ token_list[1] = Tok("Unary", "StrToInt", 0, <<>>)
      /\ token_list[2] = Tok("Unary", "IntToStr", 0, <<>>)
      /\ token_list[3].k = "Integer"
      /\ token_list[3].v >= 0)
       => result = [status |-> "Ok", node |-> IntegerN(token_list[3].v)]
  /\ (/\ pc = "done"
      /\ Len(token_list) = 3
      /\ token_list[1] = Tok("Unary", "IntToStr", 0, <<>>)
      /\ token_list[2] = Tok("Unary", "Negate", 0, <<>>)
      /\ token_list[3].k = "Integer"
      /\ token_list[3].v > 0)
       => result.status # "Ok"

\* the operator characters of `U` and of `B`
UnaryOpChars == {45, 33, 35, 36}

BinaryOpChars == {43, 45, 42, 47, 37, 60, 62, 61, 124, 38, 46, 84, 68, 36}

\* a lexeme is well formed: T, F or ? alone; U or B and one operator
\* character; I, S, L or v and a body of characters in 33..126
WellFormed(lexeme) ==
  \/ lexeme \in {<<84>>, <<70>>, <<63>>}
  \/ Len(lexeme) = 2 /\ lexeme[1] = 85 /\ lexeme[2] \in UnaryOpChars
  \/ Len(lexeme) = 2 /\ lexeme[1] = 66 /\ lexeme[2] \in BinaryOpChars
  \/ /\ lexeme[1] \in {73, 83, 76, 118}
     /\ \A i \in 2..Len(lexeme) : lexeme[i] \in 33..126

HasMalformed(text) ==
  \E i \in DOMAIN split_ascii_whitespace(text, <<>>) :
    ~WellFormed(split_ascii_whitespace(text, <<>>)[i])

\* C13: for every input with a lexeme that is not well formed, tokenize
\* returns Err(InvalidToken) or Err(InvalidCharacter): it neither panics nor
\* succeeds, and no token list is returned.
C13_MalformedRejected ==
  (pc # "tokenize" /\ HasMalformed(input))
    => /\ pc = "done"
       /\ result.status \in {"InvalidToken", "InvalidCharacter"}
       /\ token_list = <<>>

\* C14: for every n >= 0, from_i64(n).to_i64() = n; 0 is encoded as the empty
\* body and the empty body is decoded as 0.
C14_DecodeEncode ==
  \A i \in DOMAIN calls :
    /\ (calls[i].fn = "from_i64" /\ calls[i].arg >= 0 /\ i < Len(calls)
          /\ calls[i + 1].fn = "to_i64")
         => (calls[i + 1].err = "none" /\ calls[i + 1].ret = calls[i].arg)
    /\ (calls[i].fn = "from_i64" /\ calls[i].arg = 0) => calls[i].ret = <<>>
    /\ (calls[i].fn = "to_i64" /\ calls[i].arg = <<>>)
         => (calls[i].err = "none" /\ calls[i].ret = 0)

\* C14 witness: the four-digit numeral of 830584 = 94^3 was decoded back to
\* 830584
C14_Witness ==
  /\ Len(calls) = 2
  /\ calls[1].fn = "from_i64"
  /\ calls[2].fn = "to_i64"
  /\ calls[1].arg = 830584
  /\ Len(calls[1].ret) = 4
  /\ calls[2].ret = 830584

\* w without its leading `!` characters
RECURSIVE StripBang(_)
StripBang(w) == IF w # <<>> /\ Head(w) = 33 THEN StripBang(Tail(w)) ELSE w

\* calls i .. i+3 are from_str(w) = Ok, to_i64, from_i64, to_string
IsRecode(i) ==
  /\ i + 3 <= Len(calls)
  /\ calls[i].fn = "from_str"
  /\ calls[i].err = "none"
  /\ calls[i + 1].fn = "to_i64"
  /\ calls[i + 2].fn = "from_i64"
  /\ calls[i + 3].fn = "to_string"

\* C15: the encoding of every n >= 0 has no leading digit 0; for every valid
\* wire string w, decoding w and encoding the result gives w without its
\* leading `!` characters, so it gives w exactly when w does not start with `!`.
C15_ShortestNumeral ==
  \A i \in DOMAIN calls :
    /\ (calls[i].fn = "from_i64" /\ calls[i].arg >= 0)
         => (calls[i].ret = <<>> \/ calls[i].ret[1] # 0)
    /\ (calls[i].fn = "to_i64" /\ i > 1 /\ calls[i - 1].fn = "from_str")
         => calls[i].err = "none"
    /\ IsRecode(i)
         => /\ calls[i + 3].err = "none"
            /\ calls[i + 3].ret = StripBang(calls[i].arg)
            /\ (calls[i + 3].ret = calls[i].arg)
                 <=> (calls[i].arg = <<>> \/ calls[i].arg[1] # 33)

\* every character of w is a wire character
IsWire(w) == \A j \in DOMAIN w : w[j] \in 33..126

\* C16: for every sequence s of wire characters in 33..126, from_str(s)
\* succeeds, its i-th decoded character is the alphabet character at index
\* s[i] - 33, and to_string of the result gives s back; to_string and from_str
\* are inverse to each other in both directions.
C16_StringRoundTrip ==
  \A i \in DOMAIN calls :
    /\ (calls[i].fn = "from_str" /\ IsWire(calls[i].arg))
         => /\ calls[i].err = "none"
            /\ Len(calls[i].ret) = Len(calls[i].arg)
    /\ (calls[i].fn = "from_str" /\ IsWire(calls[i].arg) /\ i < Len(calls)
          /\ calls[i + 1].fn = "iter")
         => /\ Len(calls[i + 1].ret) = Len(calls[i].arg)
            /\ \A j \in DOMAIN calls[i].arg :
                 calls[i + 1].ret[j] = CHAR_MAP[(calls[i].arg[j] - 33) + 1]
    /\ (calls[i].fn = "from_str" /\ IsWire(calls[i].arg) /\ i < Len(calls)
          /\ calls[i + 1].fn = "to_string")
         => /\ calls[i + 1].err = "none"
            /\ calls[i + 1].ret = calls[i].arg
    /\ (calls[i].fn = "to_string" /\ i < Len(calls) /\ calls[i + 1].fn = "from_str")
         => /\ calls[i + 1].err = "none"
            /\ calls[i + 1].ret = calls[i].arg

\* C16 witness: from_str and then to_string gave the wire string `!~6` back
C16_Witness ==
  /\ Len(calls) = 2
  /\ calls[1].fn = "from_str"
  /\ calls[1].arg = <<33, 126, 54>>
  /\ calls[1].ret = <<0, 93, 21>>
  /\ calls[2].fn = "to_string"
  /\ calls[2].ret = <<33, 126, 54>>

\* v is the exact value of the base-94 numeral digits (most significant first)
RECURSIVE ExactNumeral(_,_)
ExactNumeral(v, digits) ==
  IF digits = <<>> THEN v = 0
  ELSE /\ v >= 0
       /\ v % 94 = digits[Len(digits)]
       /\ ExactNumeral(v \div 94, SubSeq(digits, 1, Len(digits) - 1))

\* token i starts a signed integer: a literal, or `U-` and a literal
IsSignedAt(i) ==
  /\ i <= Len(token_list)
  /\ \/ token_list[i].k = "Integer"
     \/ /\ token_list[i] = Tok("Unary", "Negate", 0, <<>>)
        /\ i + 1 <= Len(token_list)
        /\ token_list[i + 1].k = "Integer"

\* its value, and the index of the token after it
SignedAt(i) ==
  IF token_list[i].k = "Integer" THEN [v |-> token_list[i].v, next |-> i + 1]
  ELSE [v |-> 0 - token_list[i + 1].v, next |-> i + 2]

\* the token list is a Binary token and two signed integers
IsArith ==
  /\ Len(token_list) >= 3
  /\ token_list[1].k = "Binary"
  /\ IsSignedAt(2)
  /\ IsSignedAt(SignedAt(2).next)
  /\ SignedAt(SignedAt(2).next).next = Len(token_list) + 1

ArgA == SignedAt(2).v

ArgB == SignedAt(SignedAt(2).next).v

\* C17: an integer literal decodes to the exact value of its base-94 numeral,
\* whatever its length, and Add, Sub and Mul give the exact result: nothing is
\* wrapped modulo 2^64 or turned into a failure.
C17_ExactIntegers ==
  /\ (pc # "tokenize" /\ input # <<>> /\ Head(input) = 73 /\ IsWire(Tail(input)))
       => /\ pc # "aborted"
          /\ Len(token_list) = 1
          /\ token_list[1].k = "Integer"
          /\ ExactNumeral(token_list[1].v, [j \in 1..(Len(input) - 1) |-> input[j + 1] - 33])
  /\ (IsArith /\ token_list[1].op \in {"Add", "Sub", "Mul"})
       => /\ pc # "aborted"
          /\ pc = "done"
               => result = [status |-> "Ok",
                            node |-> IntegerN(CASE token_list[1].op = "Add" -> ArgA + ArgB
                                                [] token_list[1].op = "Sub" -> ArgA - ArgB
                                                [] token_list[1].op = "Mul" -> ArgA * ArgB)]

\* q and r are the quotient truncated toward zero and its remainder:
\* a = b * q + r with |r| < |b| and r zero or of the sign of a
IsTruncated(a, b, q, r) ==
  /\ a = b * q + r
  /\ (IF r < 0 THEN 0 - r ELSE r) < (IF b < 0 THEN 0 - b ELSE b)
  /\ r = 0 \/ ((r < 0) = (a < 0))

\* C18: for all Integers a and b with b # 0, `B/ a b` is the quotient
\* truncated toward zero and `B% a b` is a - b * trunc(a / b): the remainder
\* is zero or has the sign of a.
C18_TruncatedDivision ==
  (IsArith /\ token_list[1].op \in {"Div", "Modulo"} /\ ArgB # 0)
    => /\ pc # "aborted"
       /\ pc = "done"
            => /\ result.status = "Ok"
               /\ result.node.k = "Integer"
               /\ token_list[1].op = "Div"
                    => IsTruncated(ArgA, ArgB, result.node.v, ArgA - ArgB * result.node.v)
               /\ token_list[1].op = "Modulo"
                    => \E q \in (0 - MaxOperand)..MaxOperand :
                         IsTruncated(ArgA, ArgB, q, result.node.v)

\* C18 witness: -7 / 2 has returned -3
C18_Witness ==
  /\ pc = "done"
  /\ IsArith
  /\ token_list[1].op = "Div"
  /\ ArgA = 0 - 7
  /\ ArgB = 2
  /\ result = [status |-> "Ok", node |-> IntegerN(0 - 3)]

\* the input is `B<` (ch = 60) or `B>` (ch = 62) and two signed integers
IsComparison(ch) ==
  /\ Len(input) >= 2
  /\ input[1] = 66
  /\ input[2] = ch
  /\ IsArith

\* C19: for all Integers a (first operand) and b (second operand), `B< a b`
\* evaluates to Boolean(a < b) and `B> a b` to Boolean(a > b), the `<` token
\* being named IntegerLarger and the `>` token IntegerSmaller; for a = b both
\* give false.
C19_Comparison ==
  /\ IsComparison(60)
       => /\ token_list[1].op = "IntegerLarger"
          /\ pc # "aborted"
          /\ pc = "done"
               => result = [status |-> "Ok",
                            node |-> BooleanN(IF ArgA < ArgB THEN 1 ELSE 0)]
  /\ IsComparison(62)
       => /\ token_list[1].op = "IntegerSmaller"
          /\ pc # "aborted"
          /\ pc = "done"
               => result = [status |-> "Ok",
                            node |-> BooleanN(IF ArgA > ArgB THEN 1 ELSE 0)]

\* C19 witness: `B< I# I$` (2 < 3) has returned true
C19_Witness ==
  /\ pc = "done"
  /\ IsComparison(60)
  /\ ArgA = 2
  /\ ArgB = 3
  /\ result = [status |-> "Ok", node |-> BooleanN(1)]

\* both operands of the primitive Binary node h resolve to literals of the
\* kinds its operator takes
OperandsReady(nb, h) ==
  LET n == Node(nb, h)
      t1 == Node(nb, Resolve(nb, n.a))
      t2 == Node(nb, Resolve(nb, n.b))
  IN IF n.op = "Equal" THEN IsLiteral(t1) /\ IsLiteral(t2) /\ t1.k = t2.k
     ELSE t1.k = OperandKind1(n.op) /\ t2.k = OperandKind2(n.op)

\* C20: a pass replaces a Binary node whose operator is not Apply by a literal
\* only when, at the start of the pass, both its operands resolve to literals
\* of the expected kinds: no result comes from one operand alone (`B| T X`,
\* `B& F X`, `B* I! X`).
C20_BothOperandsNeeded ==
  [][(pc = "loop" /\ pc' # "aborted" /\ step'.how = "binary")
       => OperandsReady(ps.nb, step'.node)]_vars


\* ------------------------------------------------------------- determinism
\* what a run that has ended yielded: the value parse returned, or the fault
\* that ended the process
Outcome == IF pc = "aborted" THEN [status |-> fault, node |-> NoNode] ELSE result

\* parse as a function of its input and of the build
parse_build(text, checks) ==
  IF tokenize_build(text, checks).err # "none"
  THEN [status |-> tokenize_build(text, checks).err, node |-> NoNode]
  ELSE parse_tokens(tokenize_build(text, checks).toks)

\* the state an iteration of the loop leaves, as a function of the arena it
\* starts from
PassOutcome(st) ==
  IF st.fault # "none" THEN [fault |-> st.fault, ps |-> NewFactory, updated |-> FALSE]
  ELSE [fault |-> "none", ps |-> st.ps, updated |-> st.updated]

\* a step of parse leaves the state that is a function of the state it starts
\* from: the tokens of the input, the tree of the tokens built in an empty
\* arena, the renamed tree, the arena one pass of evaluate_once leaves
FunctionalStep ==
  /\ pc = "tokenize" =>
       /\ ps = NewFactory
       /\ token_list' = tokenize_build(input, overflow_checks).toks
       /\ queue' = token_list'
  /\ (pc = "construct" /\ pc' = "alpha") =>
       /\ ps'.nb = construct_node(NewFactory, token_list).ps.nb
       /\ ps'.root_id = construct_node(NewFactory, token_list).id
       /\ ps'.var_id = FirstVarId
  /\ pc = "alpha" => ps' = alpha_convert(ps, ps.root_id, {}).ps
  /\ pc = "loop" =>
       /\ (pc' = "aborted") =
            (PassOutcome(evaluate_once(PassState(ps), ps.root_id)).fault # "none")
       /\ pc' # "aborted" =>
            /\ ps' = PassOutcome(evaluate_once(PassState(ps), ps.root_id)).ps
            /\ updated' = PassOutcome(evaluate_once(PassState(ps), ps.root_id)).updated
            /\ iter' = iter + 1
  /\ pc = "return" => result' = [status |-> "Ok", node |-> Node(ps.nb, ps.root_id)]

LambdasOf(nb, h) == {l \in Reach(nb, h) : Node(nb, l).k = "Lambda"}

\* no two Lambda nodes reachable from h bind the same identifier
DistinctBinders(nb, h) ==
  \A l1, l2 \in LambdasOf(nb, h) : l1 # l2 => Node(nb, l1).v # Node(nb, l2).v

\* the identifiers of the Lambda tokens of a token list, one per occurrence
LambdaTokens(toks) == {i \in 1..Len(toks) : toks[i].k = "Lambda"}

\* C22: immediately after alpha_convert has run on the tree construct_node
\* built, the Lambda nodes of the tree bind pairwise distinct identifiers,
\* whatever the source identifiers are (128 and above, re-used by nested or
\* sibling lambdas).
C22_BindersDistinct ==
  (pc = "loop" /\ iter = 0) => DistinctBinders(ps.nb, ps.root_id)

\* alpha_convert has run on a tree with two Lambda nodes of one source
\* identifier that is in the range of the counter
C22_Witness ==
  /\ pc = "loop"
  /\ iter = 0
  /\ \E i, j \in LambdaTokens(token_list) :
       /\ i # j
       /\ token_list[i].v = token_list[j].v
       /\ token_list[i].v >= FirstVarId
  /\ Cardinality(LambdasOf(ps.nb, ps.root_id)) >= 2

\* the innermost Lambda of scope (handles, outermost first) that binds v, or
\* -1 when none does
Binder(nb, v, scope) ==
  LET s == {i \in 1..Len(scope) : Node(nb, scope[i]).v = v}
  IN IF s = {} THEN 0 - 1 ELSE scope[CHOOSE i \in s : \A j \in s : j <= i]

\* the binding structure of the tree below h: for every Variable node, the
\* Lambda node that binds it (-1 for a free variable)
RECURSIVE Bindings(_,_,_)
Bindings(nb, h, scope) ==
  LET n == Node(nb, h)
  IN CASE n.k = "Variable" -> {<<h, Binder(nb, n.v, scope)>>}
       [] n.k = "Lambda" -> Bindings(nb, n.a, Append(scope, h))
       [] n.k = "Unary" -> Bindings(nb, n.a, scope)
       [] n.k = "Binary" -> Bindings(nb, n.a, scope) \cup Bindings(nb, n.b, scope)
       [] n.k = "If" -> Bindings(nb, n.a, scope) \cup Bindings(nb, n.b, scope)
                          \cup Bindings(nb, n.c, scope)
       [] OTHER -> {}

\* C23: alpha_convert preserves the binding structure of the source: every
\* Variable occurrence is bound after the conversion by the Lambda node that
\* bound it before (the innermost enclosing one with its identifier), and a
\* free variable stays free.
C23_BindingPreserved ==
  [][pc = "alpha" =>
       Bindings(ps'.nb, ps.root_id, <<>>) = Bindings(ps.nb, ps.root_id, <<>>)]_vars

\* the identifiers get_var_id has returned so far: the counter starts at
\* FirstVarId and every call returns its value and advances it by one
Issued(p) == FirstVarId..(p.var_id - 1)

\* the variable identifiers of the source: the decoded bodies of the L and v
\* tokens
SourceIds(toks) ==
  {toks[i].v : i \in {j \in 1..Len(toks) : toks[j].k \in {"Lambda", "Variable"}}}

\* C24: every identifier get_var_id returns differs from every identifier it
\* returned before and from every variable identifier of the source tokens,
\* whatever the size of the source identifiers.  The identifiers issued are
\* the values the counter has passed, each once; none of them is an
\* identifier of an L or v token.
C24_FreshIdentifiers == Issued(ps) \cap SourceIds(token_list) = {}

\* ------------------------------------------------------------ shallow_clone
\* the handles shallow_clone allocated in the call a beta step made
Allocated(cl) == cl.base..(Len(cl.post) - 1)

\* the Lambda nodes of an arena
ArenaLambdas(nb) == {l \in 0..(Len(nb) - 1) : Node(nb, l).k = "Lambda"}

\* C25: in the copy shallow_clone returns, every Lambda node binds a fresh
\* identifier that no other Lambda node of the arena binds, and hence, after
\* any sequence of passes, no two Lambda nodes reachable from the root bind
\* the same identifier.
C25_CloneBindsFresh ==
  /\ step.how = "apply" =>
       \A l \in Allocated(step.clone) \cap ArenaLambdas(step.clone.post) :
         \A m \in ArenaLambdas(step.clone.post) \ {l} :
           Node(step.clone.post, l).v # Node(step.clone.post, m).v
  /\ (pc \in {"loop", "return"} \/ ReturnedOk) => DistinctBinders(ps.nb, ps.root_id)

\* h2 in the arena post is a copy of the subterm h of the arena pre made of
\* handles at or above base: a Lazy node is its own copy; any other node is
\* copied to a new handle with its kind, operator and payload (the identifier
\* of a Lambda or Variable apart) and copies of its children
RECURSIVE IsCopy(_,_,_,_,_)
IsCopy(pre, post, base, h, h2) ==
  LET n == Node(pre, h)
      m == Node(post, h2)
  IN IF n.k = "Lazy" THEN h2 = h
     ELSE /\ h2 >= base
          /\ m.k = n.k
          /\ m.op = n.op
          /\ m.s = n.s
          /\ n.k \in {"Boolean", "Integer"} => m.v = n.v
          /\ n.k \in {"Unary", "Lambda", "Binary", "If"} => IsCopy(pre, post, base, n.a, m.a)
          /\ n.k \in {"Binary", "If"} => IsCopy(pre, post, base, n.b, m.b)
          /\ n.k = "If" => IsCopy(pre, post, base, n.c, m.c)

\* the number of nodes of the subterm h that are not Lazy, counted as
\* shallow_clone visits them
RECURSIVE CountCopied(_,_)
CountCopied(nb, h) ==
  LET n == Node(nb, h)
  IN CASE n.k = "Lazy" -> 0
       [] n.k \in {"Unary", "Lambda"} -> 1 + CountCopied(nb, n.a)
       [] n.k = "Binary" -> 1 + CountCopied(nb, n.a) + CountCopied(nb, n.b)
       [] n.k = "If" -> 1 + CountCopied(nb, n.a) + CountCopied(nb, n.b) + CountCopied(nb, n.c)
       [] OTHER -> 1

\* the handles of the Lazy nodes shallow_clone met below h
RECURSIVE ThunksMet(_,_)
ThunksMet(nb, h) ==
  LET n == Node(nb, h)
  IN CASE n.k = "Lazy" -> {h}
       [] n.k \in {"Unary", "Lambda"} -> ThunksMet(nb, n.a)
       [] n.k = "Binary" -> ThunksMet(nb, n.a) \cup ThunksMet(nb, n.b)
       [] n.k = "If" -> ThunksMet(nb, n.a) \cup ThunksMet(nb, n.b) \cup ThunksMet(nb, n.c)
       [] OTHER -> {}

\* C26: shallow_clone(h) builds the copy from newly allocated handles only,
\* one for every node of the subterm that is not Lazy, and re-uses the handle
\* of every Lazy node it meets, so that copy and original reference the same
\* thunks; shape and payloads of the copy are those of the original, and the
\* nodes that existed before the call are as they were.
C26_CloneShape ==
  step.how = "apply" =>
    /\ IsCopy(step.clone.pre, step.clone.post, step.clone.base,
               step.clone.root, step.clone.id)
    /\ Cardinality(Allocated(step.clone)) = CountCopied(step.clone.pre, step.clone.root)
    /\ SubSeq(step.clone.post, 1, step.clone.base) = step.clone.pre

\* a beta step has cloned a body that has a Lazy node below a node that is
\* not Lazy
C26_Witness ==
  /\ step.how = "apply"
  /\ ThunksMet(step.clone.pre, step.clone.root) # {}
  /\ Cardinality(Allocated(step.clone)) >= 2
  /\ \E l \in Allocated(step.clone) :
       Children(Node(step.clone.post, l)) \cap ThunksMet(step.clone.pre, step.clone.root) # {}

\* ------------------------------------------------------------------- frames
\* the handles of the arena old, n apart, whose content in the arena new is not
\* the content they had; a Lazy node that is still a Lazy node does not count
\* (extract_node retargets the Lazy nodes it goes through)
Changed(old, new, n) ==
  {h \in 0..(Len(old) - 1) :
     /\ h # n
     /\ Node(new, h) # Node(old, h)
     /\ ~(Node(old, h).k = "Lazy" /\ Node(new, h).k = "Lazy")}

\* C27: a beta step on an Apply node changes the content of that Apply node
\* and of newly allocated nodes only: every node that existed before the step
\* keeps its content, and the arena does not shrink.
C27_BetaFrame ==
  [][(pc = "loop" /\ pc' # "aborted" /\ step'.how = "apply") =>
       /\ Changed(ps.nb, ps'.nb, step'.node) = {}
       /\ Len(ps'.nb) >= Len(ps.nb)]_vars

\* ----------------------------------------------------------------------- If
\* the handles reachable from the frontier when the If node i is entered
\* through its predicate only
RECURSIVE ReachCut(_,_,_,_)
ReachCut(nb, frontier, seen, i) ==
  IF frontier = {} THEN seen
  ELSE LET next == UNION {IF h = i THEN {Node(nb, i).a} ELSE Children(Node(nb, h)) :
                            h \in frontier}
       IN ReachCut(nb, next \ (seen \cup frontier), seen \cup frontier, i)

\* the handles a traversal from the root reaches through a branch of the If
\* node i and in no other way
OnlyVia(nb, root, i) == Reach(nb, root) \ ReachCut(nb, {root}, {}, i)

\* the reduction loop run on the node h alone ends with a Boolean literal
CanBool(p, h) ==
  /\ reduce_loop([p EXCEPT !.root_id = h], 0).fault = "none"
  /\ Node(reduce_loop([p EXCEPT !.root_id = h], 0).ps.nb, h).k = "Boolean"

\* the If nodes reachable from the root whose predicate is not yet a Boolean
\* literal and can be reduced to one
PendingIfs(p) ==
  {i \in Reach(p.nb, p.root_id) :
     /\ Node(p.nb, i).k = "If"
     /\ Node(p.nb, Resolve(p.nb, Node(p.nb, i).a)).k # "Boolean"
     /\ CanBool(p, Resolve(p.nb, Node(p.nb, i).a))}

\* the branch an If node with a Boolean predicate selects
Selected(nb, i) ==
  IF Node(nb, Resolve(nb, Node(nb, i).a)).v = 1 THEN Resolve(nb, Node(nb, i).b)
  ELSE Resolve(nb, Node(nb, i).c)

RECURSIVE Visit(_,_,_)
Visit(nb, h, acc) ==
  IF \E i \in 1..Len(acc) : acc[i] = h THEN acc
  ELSE LET n == Node(nb, h)
       IN CASE n.k \in {"Unary", "Lambda", "Lazy"} ->
                 Visit(nb, Resolve(nb, n.a), Append(acc, h))
            [] n.k = "Binary" ->
                 Visit(nb, Resolve(nb, n.b), Visit(nb, Resolve(nb, n.a), Append(acc, h)))
            [] n.k = "If" ->
                 Visit(nb, Resolve(nb, n.c),
                       Visit(nb, Resolve(nb, n.b),
                             Visit(nb, Resolve(nb, n.a), Append(acc, h))))
            [] OTHER -> Append(acc, h)

\* node h is a redex: a primitive whose operands let an arm of its match fire,
\* an Apply of a Lambda, an If with a Boolean predicate, a Lazy node whose
\* target is a literal or a Variable
IsRedex(nb, h) ==
  LET n == Node(nb, h)
      t1 == Node(nb, Resolve(nb, n.a))
      t2 == Node(nb, Resolve(nb, n.b))
  IN CASE n.k = "Unary" -> UnaryResult(n.op, t1) # NoNode
       [] n.k = "Binary" ->
            IF n.op = "Apply" THEN t1.k = "Lambda" ELSE BinaryResult(n.op, t1, t2) # NoNode
       [] n.k = "If" -> t1.k = "Boolean"
       [] n.k = "Lazy" -> IsLiteral(t1) \/ t1.k = "Variable"
       [] OTHER -> FALSE

\* the first redex in traversal order from h, or -1 when there is none
FirstRedex(nb, h) ==
  LET order == Visit(nb, h, <<>>)
      found == {i \in 1..Len(order) : IsRedex(nb, order[i])}
  IN IF found = {} THEN 0 - 1 ELSE order[CHOOSE i \in found : \A j \in found : i <= j]

\* node h keeps its content from old to new, or is a Lazy node that was
\* retargeted and resolves to the same node, not a Lazy one, as before
KeptOrRetargeted(old, new, h) ==
  \/ Node(new, h) = Node(old, h)
  \/ /\ Node(old, h).k = "Lazy"
     /\ Node(new, h).k = "Lazy"
     /\ Resolve(new, h) = Resolve(old, h)
     /\ Node(new, Resolve(new, h)).k # "Lazy"

\* C29: a call of evaluate_once from the root rewrites at most one redex, the
\* first one in traversal order (a node before its operands, function before
\* argument, first operand before second, predicate before branches); when it
\* returns with updated = false there was no redex, and no node has changed
\* except Lazy nodes retargeted by extract_node, which resolve as before.
C29_OneRedexPerPass ==
  [][(pc = "loop" /\ pc' # "aborted") =>
       /\ step'.count <= 1
       /\ updated' = (step'.how # "none")
       /\ updated' => step'.node = FirstRedex(ps.nb, ps.root_id)
       /\ ~updated' =>
            /\ FirstRedex(ps.nb, ps.root_id) = 0 - 1
            /\ Len(ps'.nb) = Len(ps.nb)
            /\ \A h \in 0..(Len(ps.nb) - 1) : KeptOrRetargeted(ps.nb, ps'.nb, h)]_vars

\* a pass has rewritten one primitive below the root and left another redex,
\* later in traversal order, as it was
C29_Witness ==
  /\ pc = "loop"
  /\ step.how = "binary"
  /\ step.count = 1
  /\ step.node # ps.root_id
  /\ FirstRedex(ps.nb, ps.root_id) # 0 - 1
  /\ Node(ps.nb, FirstRedex(ps.nb, ps.root_id)).k = "Binary"
  /\ FirstRedex(ps.nb, ps.root_id) \notin {ps.root_id, step.node}

\* -------------------------------------------------------------------- graph
\* no node reachable from h is reachable from one of its own children
Acyclic(nb, h) ==
  \A n \in Reach(nb, h) : n \notin ReachFrom(nb, Children(Node(nb, n)), {})

\* the nodes reachable from h that are not Lazy
Solid(nb, h) == {n \in Reach(nb, h) : Node(nb, n).k # "Lazy"}

\* two distinct nodes reachable from h, neither of them Lazy, hold the same
\* child handle
SharedChild(nb, h) ==
  \E n1, n2 \in Solid(nb, h) :
    n1 # n2 /\ Children(Node(nb, n1)) \cap Children(Node(nb, n2)) # {}

\* C30: in every arena state reached during reduction the graph reachable
\* from the root is acyclic, and a node has more than one incoming edge only
\* through Lazy nodes: no two distinct non-Lazy nodes reachable from the root
\* hold the same child handle.
C30_SharingThroughLazyOnly ==
  pc \in {"loop", "return"} =>
    /\ Acyclic(ps.nb, ps.root_id)
    /\ ~SharedChild(ps.nb, ps.root_id)
====
